---- MODULE Spec2Model ----
(***************************************************************************)
(* ETF holdings extractor (etf_holdings.py): the disk cache                *)
(* (ETFHoldingsCache), the per-ticker lookup of ETFHoldingsExtractor       *)
(* (get_etf_holdings and the four extraction paths behind it) and the      *)
(* batch function get_multiple_etf_holdings.                               *)
(*                                                                         *)
(* Time is counted in days, the unit of cache_ttl_days.  A Python dict is  *)
(* a function on strings, None is the record None, a raised exception is   *)
(* a record with the field exc.  Every operation leaves what it returned   *)
(* (or raised) in the variable last.                                       *)
(***************************************************************************)
EXTENDS Integers, Sequences, FiniteSets, TLC

VARIABLES
    files,      \* cache_dir: payload file name -> [content, mtime]
    info,       \* cache_info.json: ticker -> index record
    ttl,        \* ETFHoldingsCache.cache_ttl_days
    now,        \* the clock, in days
    enable_cache,           \* ETFHoldingsExtractor.enable_cache
    enable_auto_discovery,  \* ETFHoldingsExtractor.enable_auto_discovery
    known,      \* the keys of the class dict KNOWN_ETF_CIKS
    last,       \* the last operation, its arguments and what it returned
    puts        \* history: cache key -> the last store_data that wrote it

vars == <<files, info, ttl, now, enable_cache, enable_auto_discovery, known, last, puts>>

\* ------------------------------------------------------------------ bounds

\* The clock stops at MaxTime days.
MaxTime == 3

\* ------------------------------------------------------------------ values

None == [none |-> TRUE]

\* str.upper() on the ticker spellings the model uses.
Upper(s) ==
    CASE s = "vti" -> "VTI"
      [] s = "Vti" -> "VTI"
      [] s = "ivv" -> "IVV"
      [] s = "rsp" -> "RSP"
      [] s = "cg1" -> "CG1"
      [] s = "bil" -> "BIL"
      [] OTHER -> s

\* Whether the file name f"{T}_{m}.json" matches the glob f"{X}_*.json" for
\* different symbols T and X: it does when T starts with X followed by "_".
UnderscoreExtends(T, X) ==
    <<T, X>> \in {<<"VTI_X", "VTI">>, <<"NONEXISTENT_TICKER", "NONEXISTENT">>}

\* A function without the arguments in S.
WithoutAll(f, S) == [x \in (DOMAIN f) \ S |-> f[x]]

\* d[k] = v, adding the key when it is new.
Put(f, k, v) == [x \in (DOMAIN f) \cup {k} |-> IF x = k THEN v ELSE f[x]]

\* The empty dict.
Empty == [x \in {} |-> None]

\* ------------------------------------------------------------------ cache

\* A mutant: the payload file is named after the ticker alone.
_get_cache_filename_no_depth(ticker, max_filings) == <<Upper(ticker), 0>>

\* The payload file name; the model keeps its two parts apart.
_get_cache_filename(ticker, max_filings) == <<Upper(ticker), max_filings>>

_get_cache_file(ticker, max_filings) == _get_cache_filename(ticker, max_filings)

\* The cache directory as the methods below take and give it back: the
\* payload files, the index, and the history of writes.
Disk == [files |-> files, info |-> info, puts |-> puts]

\* A mutant: the entry stops being valid as soon as its age reaches the TTL.
is_cache_valid_strict(d, ticker, max_filings) ==
    /\ ttl > 0
    /\ _get_cache_file(ticker, max_filings) \in DOMAIN d.files
    /\ ~(now >= d.files[_get_cache_file(ticker, max_filings)].mtime + ttl)

\* A mutant: the TTL check without the "caching disabled" guard.
is_cache_valid_unguarded(d, ticker, max_filings) ==
    /\ _get_cache_file(ticker, max_filings) \in DOMAIN d.files
    /\ ~(now > d.files[_get_cache_file(ticker, max_filings)].mtime + ttl)

is_cache_valid(d, ticker, max_filings) ==
    /\ ttl > 0
    /\ _get_cache_file(ticker, max_filings) \in DOMAIN d.files
    /\ ~(now > d.files[_get_cache_file(ticker, max_filings)].mtime + ttl)

\* The content of a file opened for writing whose json.dump has not
\* finished: text that is no JSON document.
Incomplete == [incomplete |-> TRUE]

\* json.load of an incomplete file raises; the method catches it and
\* returns None.
get_cached_data(d, ticker, max_filings) ==
    IF ~is_cache_valid(d, ticker, max_filings)
    THEN None
    ELSE IF d.files[_get_cache_file(ticker, max_filings)].content = Incomplete
    THEN None
    ELSE d.files[_get_cache_file(ticker, max_filings)].content

\* {**data, "_cache_info": {...}}
WithCacheInfo(ticker, max_filings, data) ==
    ("_cache_info" :> [ticker |-> ticker,
                       max_filings |-> max_filings,
                       cached_at |-> now,
                       filename |-> _get_cache_filename(ticker, max_filings)])
    @@ data

\* A mutant: the cache stamp is left in the result.
StripCacheInfoKept(cached_data) == cached_data

\* {k: v for k, v in cached_data.items() if k != "_cache_info"}
StripCacheInfo(cached_data) ==
    [k \in (DOMAIN cached_data) \ {"_cache_info"} |-> cached_data[k]]

\* The cache directory after store_data: the payload file, then the index
\* record of the ticker.  puts is the history (not part of the program).
store_data(d, ticker, max_filings, data) ==
    IF ttl <= 0
    THEN d
    ELSE [files |-> Put(d.files, _get_cache_file(ticker, max_filings),
                        [content |-> WithCacheInfo(ticker, max_filings, data),
                         mtime |-> now]),
          info |-> Put(d.info, ticker,
                       [filename |-> _get_cache_filename(ticker, max_filings),
                        cached_at |-> now,
                        max_filings |-> max_filings,
                        holdings_count |-> Len(data.rows)]),
          puts |-> Put(d.puts, <<Upper(ticker), max_filings>>,
                       [data |-> data, at |-> now])]

\* The payload files clear_cache(ticker) unlinks: the indexed file of the
\* ticker, then every file matching the glob f"{ticker_upper}_*.json".
clear_cache_unlinked(d, ticker) ==
    {f \in DOMAIN d.files :
        \/ /\ Upper(ticker) \in DOMAIN d.info
           /\ d.info[Upper(ticker)].filename = f
        \/ f[1] = Upper(ticker)
        \/ UnderscoreExtends(f[1], Upper(ticker))}

\* clear_cache(ticker): the index is written back only if a file went.
clear_cache(d, ticker) ==
    [files |-> WithoutAll(d.files, clear_cache_unlinked(d, ticker)),
     info |-> IF clear_cache_unlinked(d, ticker) # {}
              THEN WithoutAll(d.info, {Upper(ticker)})
              ELSE d.info,
     puts |-> WithoutAll(d.puts, clear_cache_unlinked(d, ticker))]

\* clear_cache(): the directory is removed and made anew.
clear_cache_all(d) == [files |-> Empty, info |-> Empty, puts |-> Empty]

\* The index records cleanup_expired finds expired.
expired_tickers(d) ==
    {t \in DOMAIN d.info : ~is_cache_valid(d, t, d.info[t].max_filings)}

\* The payload files cleanup_expired unlinks.
cleanup_expired_unlinked(d) ==
    {f \in DOMAIN d.files : \E t \in expired_tickers(d) : d.info[t].filename = f}

\* cleanup_expired: the directory afterwards (the count returned is
\* len(expired_tickers)).
cleanup_expired(d) ==
    [files |-> WithoutAll(d.files, cleanup_expired_unlinked(d)),
     info |-> WithoutAll(d.info, expired_tickers(d)),
     puts |-> WithoutAll(d.puts, cleanup_expired_unlinked(d))]

\* ------------------------------------------------------------------ tables

\* ISHARES_ETF_MAPPINGS: ticker -> product id.
ISHARES_ETF_MAPPINGS ==
    [t \in {"URTH", "IVV", "EFA", "IEMG", "ACWI", "AGG", "IJH", "IJR", "IEFA", "ITOT"} |->
        CASE t = "URTH" -> "239696" [] t = "IVV" -> "239726" [] t = "EFA" -> "239623"
          [] t = "IEMG" -> "244048" [] t = "ACWI" -> "239600" [] t = "AGG" -> "239458"
          [] t = "IJH" -> "239763" [] t = "IJR" -> "239774" [] t = "IEFA" -> "251622"
          [] OTHER -> "239724"]

\* AMUNDI_ETF_MAPPINGS: ticker -> product id.
AMUNDI_ETF_MAPPINGS ==
    [t \in {"CG1", "CS1", "FMI"} |->
        CASE t = "CG1" -> "FR0010655712" [] t = "CS1" -> "FR0010655746"
          [] OTHER -> "LU1681037518"]

\* No series id (None in the second place of a KNOWN_ETF_CIKS tuple).
NoSeries == "<none>"

\* KNOWN_ETF_CIKS as the class body sets it: ticker -> (cik, series_id).
KNOWN_ETF_CIKS ==
    [t \in {"RSP", "AIQ", "NLR", "FENY", "VTI", "VONV", "XSHQ", "USCA", "QQQ", "SPY"} |->
        CASE t = "RSP" -> [cik |-> "0001064642", series_id |-> NoSeries]
          [] t = "AIQ" -> [cik |-> "0001432353", series_id |-> NoSeries]
          [] t = "NLR" -> [cik |-> "0001137360", series_id |-> NoSeries]
          [] t = "FENY" -> [cik |-> "0001284940", series_id |-> NoSeries]
          [] t = "VTI" -> [cik |-> "0000036405", series_id |-> "S000002848"]
          [] t = "VONV" -> [cik |-> "0000036405", series_id |-> NoSeries]
          [] t = "XSHQ" -> [cik |-> "0001378872", series_id |-> NoSeries]
          [] t = "USCA" -> [cik |-> "0001540305", series_id |-> NoSeries]
          [] t = "QQQ" -> [cik |-> "0001067839", series_id |-> NoSeries]
          [] OTHER -> [cik |-> "0000884394", series_id |-> NoSeries]]

\* ------------------------------------------------------------------ results

\* What a method hands back: a returned value or a raised exception, with
\* the network calls it issued (net) and the extraction methods it entered.
Returned(value, net) ==
    [raised |-> FALSE, ret |-> value, exc |-> "", net |-> net, path |-> <<>>]

Raised(e, net) ==
    [raised |-> TRUE, ret |-> None, exc |-> e, net |-> net, path |-> <<>>]

HasRaised(o) == o.raised

\* The same outcome, entered through the extraction method m.
Via(m, o) == [o EXCEPT !.path = <<m>> \o @]

\* A network call in net: its kind, the filing it fetches ("" when it is of
\* no filing), and whether time.sleep(self.delay) ran after it (the sleep
\* stands behind raise_for_status(), so it runs only when the call succeeded).
Call(kind, id, slept) == [call |-> kind, id |-> id, slept |-> slept]

\* {"ticker": ..., "rows": ..., "note": ...}; a note is the sequence of the
\* parts its f-string concatenates.
Result(ticker, rows, note) == [ticker |-> ticker, rows |-> rows, note |-> note]

\* The marker every success note starts with.
SuccessMarker == "OK via "

HasSuccessMarker(note) == Len(note) > 0 /\ note[1] = SuccessMarker

\* ------------------------------------------------------------------ iShares CSV

\* safe_clean: "," "$" and '"' removed, then strip().
safe_clean(value) ==
    CASE value = "1,000" -> "1000"
      [] value = "$2,500.00" -> "2500.00"
      [] value = " - " -> "-"
      [] value = "$" -> ""
      [] OTHER -> value

\* The index of the first line starting with "Ticker,Name,Sector", 0 if none.
RECURSIVE HeaderLineIdx(_, _)
HeaderLineIdx(lines, i) ==
    IF i > Len(lines) THEN 0
    ELSE IF lines[i].kind = "hdr" THEN i
    ELSE HeaderLineIdx(lines, i + 1)

\* The dict csv.DictReader makes of a line below the header: a line of free
\* text fills only the first column, a repeated header line reads as values.
DictRow(line) ==
    CASE line.kind = "rec" -> [Ticker |-> line.Ticker, Name |-> line.Name,
                               Quantity |-> "1,000", MarketValue |-> "$2,500.00",
                               Weight |-> "0.05"]
      [] line.kind = "hdr" -> [Ticker |-> "Ticker", Name |-> "Name",
                               Quantity |-> "Quantity", MarketValue |-> "Market Value",
                               Weight |-> "Weight (%)"]
      [] OTHER -> [Ticker |-> "free text", Name |-> "", Quantity |-> "",
                   MarketValue |-> "", Weight |-> ""]

IsharesHolding(ticker, row) ==
    [ticker_fund |-> ticker,
     issuer |-> safe_clean(row.Name),
     title |-> <<safe_clean(row.Name), " (", safe_clean(row.Ticker), ")">>,
     id_cusip |-> "",
     id_isin |-> "",
     balance |-> safe_clean(row.Quantity),
     value_usd |-> safe_clean(row.MarketValue),
     weight_pct |-> safe_clean(row.Weight)]

\* The loop over the reader without its last test: every row with a symbol
\* and a name is kept, whatever the cleaned name.
RECURSIVE IsharesRows_KeepingBlankIssuer(_, _, _)
IsharesRows_KeepingBlankIssuer(data_lines, i, ticker) ==
    IF i > Len(data_lines) THEN <<>>
    ELSE LET row == DictRow(data_lines[i])
             rest == IsharesRows_KeepingBlankIssuer(data_lines, i + 1, ticker)
         IN IF row.Ticker = "" \/ row.Ticker = "-" \/ row.Name = ""
            THEN rest
            ELSE <<IsharesHolding(ticker, row)>> \o rest

\* The loop over the reader: the rows kept, in feed order.
RECURSIVE IsharesRows(_, _, _)
IsharesRows(data_lines, i, ticker) ==
    IF i > Len(data_lines) THEN <<>>
    ELSE LET row == DictRow(data_lines[i])
             rest == IsharesRows(data_lines, i + 1, ticker)
         IN IF row.Ticker = "" \/ row.Ticker = "-" \/ row.Name = ""
            THEN rest
            ELSE IF IsharesHolding(ticker, row).issuer # ""
                    /\ IsharesHolding(ticker, row).issuer # "-"
                 THEN <<IsharesHolding(ticker, row)>> \o rest
                 ELSE rest

\* content is the sequence of the lines of the response text; a line of
\* kind "bad" makes the csv reader raise (caught by the method).
_parse_ishares_csv(content, ticker) ==
    LET header_line_idx == HeaderLineIdx(content, 1)
        data_lines == SubSeq(content, header_line_idx + 1, Len(content))
        rows == IsharesRows(data_lines, 1, ticker)
    IN IF header_line_idx = 0
       THEN Result(ticker, <<>>, <<"Could not find CSV header in iShares data">>)
       ELSE IF \E i \in 1..Len(data_lines) : data_lines[i].kind = "bad"
       THEN Result(ticker, <<>>, <<"Error parsing iShares CSV: ", "csv.Error">>)
       ELSE Result(ticker, rows,
                   <<SuccessMarker, "iShares CSV download (", Len(rows), " holdings)">>)

\* response: what the GET of the CSV url gives, an error (timeout, non-2xx
\* status) or the text.
_extract_via_ishares_csv(ticker, response) ==
    IF response.kind = "error"
    THEN Returned(Result(ticker, <<>>,
                         <<"Failed to download iShares CSV: ", response.err>>),
                  <<Call("ishares_csv", "", FALSE)>>)
    ELSE Returned(_parse_ishares_csv(response.text, ticker),
                  <<Call("ishares_csv", "", TRUE)>>)

\* ------------------------------------------------------------------ Amundi API

\* format_number on the quantities the model uses.
format_number(value) ==
    CASE value = "100.0" -> "100"
      [] value = "null" -> ""
      [] OTHER -> value

\* str(n) of a natural number: its decimal digits, one character each.
RECURSIVE str(_)
str(n) ==
    LET digit(d) == <<"0", "1", "2", "3", "4", "5", "6", "7", "8", "9">>[d + 1]
    IN IF n < 10 THEN <<digit(n)>>
       ELSE str(n \div 10) \o <<digit(n % 10)>>

\* f"{pct:.6f}", pct counted in millionths: the integer part, the point and
\* six decimals.
Fixed6(pct) ==
    LET decimals == str(pct % 1000000)
    IN str(pct \div 1000000) \o <<".">>
       \o [i \in 1..(6 - Len(decimals)) |-> "0"] \o decimals

\* s.rstrip(c)
RECURSIVE rstrip(_, _)
rstrip(s, c) ==
    IF s # <<>> /\ s[Len(s)] = c THEN rstrip(SubSeq(s, 1, Len(s) - 1), c)
    ELSE s

\* A mutant: the zeros are trimmed, the point is left.
format_percent_keeping_point(value) ==
    IF value = <<>> THEN <<>>
    ELSE rstrip(Fixed6(value[1]), "0")

\* format_percent.  A weight is <<>> when the entry has none (None), else
\* <<n>> for the fraction n / 10^8, so that float(value) * 100.0 is n
\* millionths; the result is the string, one character each ("" is <<>>).
format_percent(value) ==
    IF value = <<>> THEN <<>>
    ELSE rstrip(rstrip(Fixed6(value[1]), "0"), ".")

AmundiRow(ticker, entry) ==
    [ticker_fund |-> ticker,
     issuer |-> entry.name,
     title |-> IF entry.bbg # "" THEN <<entry.name, " (", entry.bbg, ")">>
               ELSE <<entry.name>>,
     id_cusip |-> "",
     id_isin |-> entry.isin,
     balance |-> format_number(entry.quantity),
     value_usd |-> "",
     weight_pct |-> format_percent(entry.weight),
     currency |-> "EUR",
     sector |-> "",
     country |-> "DE",
     country_of_risk |-> "DE",
     security_type |-> "EQUITY",
     bbg |-> entry.bbg,
     as_of_date |-> entry.date]

\* The loop over composition_data from entry i on, with the rows and the
\* as-of date collected so far.  An entry that is no dict, or whose name is
\* no string, makes entry.get / .strip() raise AttributeError.
RECURSIVE AmundiLoop(_, _, _, _, _)
AmundiLoop(composition_data, i, ticker, rows, as_of_date) ==
    IF i > Len(composition_data)
    THEN [rows |-> rows, as_of_date |-> as_of_date]
    ELSE LET entry == composition_data[i]
         IN IF entry.shape # "dict"
            THEN [exc |-> "AttributeError"]
            ELSE IF entry.name = ""
            THEN AmundiLoop(composition_data, i + 1, ticker, rows, as_of_date)
            ELSE AmundiLoop(composition_data, i + 1, ticker,
                            Append(rows, AmundiRow(ticker, entry)),
                            IF as_of_date = "" THEN entry.date ELSE as_of_date)

\* The part of _extract_via_amundi_api below the request: data is the
\* decoded JSON body.
AmundiParse(ticker, data) ==
    IF data.shape # "dict" THEN [exc |-> "AttributeError"]
    ELSE IF data.products = <<>>
    THEN [ret |-> Result(ticker, <<>>, <<"No product data returned by Amundi API.">>)]
    ELSE IF data.products[1].shape # "dict" THEN [exc |-> "AttributeError"]
    ELSE IF data.products[1].compositionData = <<>>
    THEN [ret |-> Result(ticker, <<>>, <<"No composition data returned by Amundi API.">>)]
    ELSE LET done == AmundiLoop(data.products[1].compositionData, 1, ticker, <<>>, "")
         IN IF "exc" \in DOMAIN done THEN [exc |-> done.exc]
            ELSE [ret |-> Result(ticker, done.rows,
                       <<SuccessMarker, "Amundi API (", Len(done.rows), " holdings",
                         IF done.as_of_date # "" THEN <<" as of ", done.as_of_date>>
                         ELSE <<>>,
                         ")">>)]

\* response: what the POST gives: a requests exception (timeout, non-2xx
\* status), a body that is no JSON (ValueError), or the decoded body.
_extract_via_amundi_api(ticker, response) ==
    CASE response.kind = "RequestException" ->
            Returned(Result(ticker, <<>>,
                            <<"Failed to fetch Amundi data: ", response.err>>),
                     <<Call("amundi_api", "", FALSE)>>)
      [] response.kind = "ValueError" ->
            Returned(Result(ticker, <<>>,
                            <<"Invalid JSON from Amundi API: ", response.err>>),
                     <<Call("amundi_api", "", TRUE)>>)
      [] OTHER ->
            LET o == AmundiParse(ticker, response.data)
            IN IF "exc" \in DOMAIN o
               THEN Raised(o.exc, <<Call("amundi_api", "", TRUE)>>)
               ELSE Returned(o.ret, <<Call("amundi_api", "", TRUE)>>)

\* ------------------------------------------------------------------ SEC filings

\* JSON null where a string is expected.
NullStr == "<null>"

\* str.startswith over the form prefixes ("NPORT-P", "NPORT-EX").
StartsWithNport(form) == form \in {"NPORT-P", "NPORT-P/A", "NPORT-EX"}

\* a.replace("-", "")
StripDashes(a) ==
    CASE a = "0001-24-000001" -> "000124000001"
      [] a = "0001-24-000002" -> "000124000002"
      [] a = "0001-24-000003" -> "000124000003"
      [] a = "0001-24-000004" -> "000124000004"
      [] a = "0001-24-000005" -> "000124000005"
      [] a = "0001-24-000006" -> "000124000006"
      [] a = "0001-24-000007" -> "000124000007"
      [] OTHER -> a

\* list.sort(key=filingDate, reverse=True) is stable: x goes behind every
\* element whose date is not older than its own.
RECURSIVE InsertByDateDesc(_, _)
InsertByDateDesc(sorted, x) ==
    IF sorted = <<>> THEN <<x>>
    ELSE IF Head(sorted).filingDate >= x.filingDate
         THEN <<Head(sorted)>> \o InsertByDateDesc(Tail(sorted), x)
         ELSE <<x>> \o sorted

RECURSIVE SortByDateDesc(_)
SortByDateDesc(out) ==
    IF out = <<>> THEN <<>>
    ELSE InsertByDateDesc(SortByDateDesc(SubSeq(out, 1, Len(out) - 1)),
                          out[Len(out)])

\* The N-PORT filings of the catalog, in catalog order.
RECURSIVE NportFilings(_, _)
NportFilings(recent, i) ==
    IF i > Len(recent) THEN <<>>
    ELSE IF StartsWithNport(recent[i].form)
         THEN <<[form |-> recent[i].form,
                 accession |-> StripDashes(recent[i].accessionNumber),
                 filingDate |-> recent[i].filingDate,
                 primary |-> recent[i].primaryDocument,
                 served |-> recent[i].served]>> \o NportFilings(recent, i + 1)
         ELSE NportFilings(recent, i + 1)

\* A mutant: the filings are left in the order the catalog lists them.
_list_recent_filings_for_cik_unsorted(response) ==
    IF response.kind = "RequestException" THEN [ret |-> <<>>]
    ELSE IF response.shape # "dict" THEN [exc |-> "AttributeError"]
    ELSE IF \E i \in 1..Len(response.recent) : response.recent[i].form = NullStr
    THEN [exc |-> "AttributeError"]
    ELSE [ret |-> NportFilings(response.recent, 1)]

\* _get_submissions and _list_recent_filings_for_cik.  response is what the
\* GET of the submissions url gives: a requests exception, or a JSON body; a
\* body that is no dict, or whose "filings" is null, or with a null form,
\* makes .get / .startswith raise AttributeError.
_list_recent_filings_for_cik(response) ==
    IF response.kind = "RequestException" THEN [ret |-> <<>>]
    ELSE IF response.shape # "dict" THEN [exc |-> "AttributeError"]
    ELSE IF \E i \in 1..Len(response.recent) : response.recent[i].form = NullStr
    THEN [exc |-> "AttributeError"]
    ELSE [ret |-> SortByDateDesc(NportFilings(response.recent, 1))]

\* The first name of the wanted kind, 0 if none.
RECURSIVE FirstName(_, _, _)
FirstName(manifest, i, wanted) ==
    IF i > Len(manifest) THEN 0
    ELSE IF manifest[i] \in wanted THEN i
    ELSE FirstName(manifest, i + 1, wanted)

\* The manifest names the model uses, by the three tests of _find_nport_doc.
PrimaryDocNames == {"primary_doc.xml", "PRIMARY_DOC.XML"}

NportXmlNames == {"nport_holdings.xml", "NPORT_2.XML"}

XmlNames == PrimaryDocNames \cup NportXmlNames \cup {"other.xml"}

\* A mutant: the names holding "nport" are not preferred.
_find_nport_doc_any_xml(manifest) ==
    IF FirstName(manifest, 1, PrimaryDocNames) # 0 THEN FirstName(manifest, 1, PrimaryDocNames)
    ELSE FirstName(manifest, 1, XmlNames)

\* The index in the manifest of the document picked, 0 for None.
_find_nport_doc(manifest) ==
    IF FirstName(manifest, 1, PrimaryDocNames) # 0 THEN FirstName(manifest, 1, PrimaryDocNames)
    ELSE IF FirstName(manifest, 1, NportXmlNames) # 0 THEN FirstName(manifest, 1, NportXmlNames)
    ELSE FirstName(manifest, 1, XmlNames)

\* A mutant: the pre-check lets every document through.
_find_ticker_in_content_any(content, ticker, series_id) == TRUE

\* content.has_series: one of the series patterns is in the first 100000
\* characters; content.has_ticker: one of the ticker or alias patterns is.
_find_ticker_in_content(content, ticker, series_id) ==
    \/ series_id # NoSeries /\ content.has_series
    \/ content.has_ticker

\* str.strip() on the texts the model uses.
strip(text) ==
    CASE text = "  " -> ""
      [] text = " APPLE INC " -> "APPLE INC"
      [] OTHER -> text

\* The structural paths tried for the position nodes, in this order.
candidates ==
    <<".//edgar:invstOrSecs//edgar:invstOrSec", ".//invstOrSecs//invstOrSec",
      ".//investmentOrSecs//investmentOrSec", ".//invstOrSec", ".//investment",
      ".//position">>

\* The namespace prefixes get_text puts before a tag, in this order.
NsPrefixes == <<"edgar:", "ncom:", "">>

\* get_text from tag t and prefix p on: the first query with a result ends
\* the search, and the result's first text is returned stripped.  A position
\* node sec maps (tag, prefix) to the text nodes
\* sec.xpath(f".//{ns_prefix}{tag}/text()") finds; an element without text
\* has none.
RECURSIVE get_text_from(_, _, _, _)
get_text_from(sec, tag_names, t, p) ==
    IF t > Len(tag_names) THEN ""
    ELSE IF p > Len(NsPrefixes) THEN get_text_from(sec, tag_names, t + 1, 1)
    ELSE LET xpath == <<tag_names[t], NsPrefixes[p]>>
             result == IF xpath \in DOMAIN sec THEN sec[xpath] ELSE <<>>
         IN IF result # <<>> THEN strip(result[1])
            ELSE get_text_from(sec, tag_names, t, p + 1)

get_text(sec, tag_names) == get_text_from(sec, tag_names, 1, 1)

\* The tag names get_text is given for each field.
FieldTags ==
    [issuer |-> <<"issuer", "issuerName", "name">>,
     title |-> <<"title", "description", "securityTitle">>,
     cusip |-> <<"cusip", "cusipNum">>,
     isin |-> <<"isin", "isinNum">>,
     balance |-> <<"balance", "shares", "amount", "qty">>,
     value |-> <<"valUSD", "value", "fairValue", "marketValue">>,
     pct |-> <<"pctVal", "percentOfPortfolio", "weight">>]

\* What the loop appends for a node whose fields read text: the row when the
\* issuer, the title or the cusip is non-empty, nothing otherwise.
NportRow(ticker, text) ==
    IF text.issuer # "" \/ text.title # "" \/ text.cusip # ""
    THEN <<[ticker_fund |-> ticker,
            issuer |-> IF text.issuer # "" THEN text.issuer ELSE text.title,
            title |-> text.title,
            id_cusip |-> text.cusip,
            id_isin |-> text.isin,
            balance |-> text.balance,
            value_usd |-> text.value,
            weight_pct |-> text.pct]>>
    ELSE <<>>

\* The loop over the nodes one path matched: the seven fields of each node
\* are read with get_text.
RECURSIVE NportRows(_, _, _)
NportRows(positions, i, ticker) ==
    IF i > Len(positions) THEN <<>>
    ELSE NportRow(ticker, [field \in DOMAIN FieldTags |->
                              get_text(positions[i], FieldTags[field])])
         \o NportRows(positions, i + 1, ticker)

\* The loop over candidates from path p on: a path without nodes, or whose
\* nodes give no row, is followed by the next; the first path that gives
\* rows ends the loop.  content.paths[p]: the nodes root.xpath finds for
\* candidates[p].
RECURSIVE CandidatesLoop(_, _, _)
CandidatesLoop(content, p, ticker) ==
    IF p > Len(candidates) THEN <<>>
    ELSE IF content.paths[p] = <<>> THEN CandidatesLoop(content, p + 1, ticker)
    ELSE LET rows == NportRows(content.paths[p], 1, ticker)
         IN IF rows # <<>> THEN rows
            ELSE CandidatesLoop(content, p + 1, ticker)

\* content.xml_ok: the bytes parse as XML (otherwise etree.fromstring raises
\* and the method returns []).
_parse_nport_xml(content, ticker) ==
    IF ~content.xml_ok THEN <<>>
    ELSE CandidatesLoop(content, 1, ticker)

\* A mutant: the scan is not cut to max_filings.
SliceToAll(s, n) == s

\* filings[:max_filings]
SliceTo(s, n) ==
    IF n >= 0
    THEN SubSeq(s, 1, IF n < Len(s) THEN n ELSE Len(s))
    ELSE SubSeq(s, 1, IF Len(s) + n > 0 THEN Len(s) + n ELSE 0)

\* A mutant: a manifest that cannot be fetched ends the scan.
RECURSIVE KnownLoopAborting(_, _, _, _, _)
KnownLoopAborting(filings_to_check, idx, ticker, series_id, net) ==
    IF idx > Len(filings_to_check)
    THEN Returned(Result(ticker, <<>>,
                         <<"No holdings found after checking ",
                           Len(filings_to_check), " filings.">>), net)
    ELSE LET f == filings_to_check[idx]
             net1 == Append(net, Call("manifest", f.accession,
                                      f.served.manifest # "error"))
             net2 == Append(net1, Call("document", f.accession,
                                       f.served.doc # "error"))
             rows == _parse_nport_xml(f.served.content, ticker)
             next(n) == KnownLoopAborting(filings_to_check, idx + 1, ticker,
                                          series_id, n)
         IN IF f.served.manifest = "error"
            THEN Returned(Result(ticker, <<>>,
                                 <<"No holdings found after checking ",
                                   Len(filings_to_check), " filings.">>), net1)
            ELSE IF _find_nport_doc(f.served.files) = 0 THEN next(net1)
            ELSE IF f.served.doc = "error" THEN next(net2)
            ELSE IF series_id # NoSeries
                    /\ ~_find_ticker_in_content(f.served.content, ticker, series_id)
            THEN next(net2)
            ELSE IF rows # <<>>
            THEN Returned(Result(ticker, rows,
                                 <<SuccessMarker, f.form, " ", f.filingDate,
                                   " (known mapping)">>), net2)
            ELSE next(net2)

\* The loop of _extract_via_known_mapping from candidate idx on; net is the
\* network calls issued so far.  f.served is what the servers answer for the
\* filing: the manifest (or an error) and the document (or an error).
RECURSIVE KnownLoop(_, _, _, _, _)
KnownLoop(filings_to_check, idx, ticker, series_id, net) ==
    IF idx > Len(filings_to_check)
    THEN Returned(Result(ticker, <<>>,
                         <<"No holdings found after checking ",
                           Len(filings_to_check), " filings.">>), net)
    ELSE LET f == filings_to_check[idx]
             net1 == Append(net, Call("manifest", f.accession,
                                      f.served.manifest # "error"))
             net2 == Append(net1, Call("document", f.accession,
                                       f.served.doc # "error"))
             rows == _parse_nport_xml(f.served.content, ticker)
             next(n) == KnownLoop(filings_to_check, idx + 1, ticker, series_id, n)
         IN IF f.served.manifest = "error" THEN next(net1)
            ELSE IF _find_nport_doc(f.served.files) = 0 THEN next(net1)
            ELSE IF f.served.doc = "error" THEN next(net2)
            ELSE IF series_id # NoSeries
                    /\ ~_find_ticker_in_content(f.served.content, ticker, series_id)
            THEN next(net2)
            ELSE IF rows # <<>>
            THEN Returned(Result(ticker, rows,
                                 <<SuccessMarker, f.form, " ", f.filingDate,
                                   " (known mapping)">>), net2)
            ELSE next(net2)

\* mapping is KNOWN_ETF_CIKS[ticker]; response answers the submissions url.
_extract_via_known_mapping(ticker, max_filings, mapping, response) ==
    LET listed == _list_recent_filings_for_cik(response)
        net == <<Call("submissions", "", response.kind # "RequestException")>>
    IN IF "exc" \in DOMAIN listed THEN Raised(listed.exc, net)
       ELSE IF listed.ret = <<>>
       THEN Returned(Result(ticker, <<>>, <<"No N-PORT filings found for this CIK.">>),
                     net)
       ELSE KnownLoop(SliceTo(listed.ret, max_filings), 1, ticker,
                      mapping.series_id, net)

\* ------------------------------------------------------------------ auto-discovery

\* sorted(dirs, reverse=True): directory names are distinct.
RECURSIVE InsertByNameDesc(_, _)
InsertByNameDesc(sorted, d) ==
    IF sorted = <<>> THEN <<d>>
    ELSE IF Head(sorted).name >= d.name
         THEN <<Head(sorted)>> \o InsertByNameDesc(Tail(sorted), d)
         ELSE <<d>> \o sorted

RECURSIVE SortByNameDesc(_)
SortByNameDesc(dirs) ==
    IF dirs = <<>> THEN <<>>
    ELSE InsertByNameDesc(SortByNameDesc(SubSeq(dirs, 1, Len(dirs) - 1)),
                          dirs[Len(dirs)])

\* The loop of _parse_auto_discovered_filings from directory i on.  A
\* directory has a name (its accession number, as a number), may lack
\* full-submission.txt, may hold no XML document, or one that parses.
RECURSIVE DiscoveredLoop(_, _, _, _)
DiscoveredLoop(filing_dirs, i, ticker, net) ==
    IF i > Len(filing_dirs)
    THEN Returned(Result(ticker, <<>>,
                         <<"No holdings found in ", Len(filing_dirs),
                           " auto-discovered filings.">>), net)
    ELSE LET d == filing_dirs[i]
             rows == _parse_nport_xml(d.content, ticker)
         IN IF ~d.submission \/ ~d.has_xml
            THEN DiscoveredLoop(filing_dirs, i + 1, ticker, net)
            ELSE IF rows # <<>>
            THEN Returned(Result(ticker, rows,
                                 <<SuccessMarker, "NPORT-P ", d.name,
                                   " (auto-discovery)">>), net)
            ELSE DiscoveredLoop(filing_dirs, i + 1, ticker, net)

_parse_auto_discovered_filings(ticker, directory, net) ==
    IF ~directory.folder
    THEN Returned(Result(ticker, <<>>, <<"No downloaded filings found.">>), net)
    ELSE DiscoveredLoop(SortByNameDesc(directory.dirs), 1, ticker, net)

\* directory: the entity directory and the download service as the
\* downloader sees them: whether the ticker is listed, whether the download
\* raises, how many filings it brings, and what it leaves on disk.
_extract_via_auto_discovery(ticker, max_filings, directory) ==
    IF ~directory.listed
    THEN Returned(Result(ticker, <<>>,
                         <<"Ticker not found in automatic discovery database.">>), <<>>)
    ELSE IF directory.download = "error"
    THEN Returned(Result(ticker, <<>>, <<"Auto-discovery failed: ", directory.err>>),
                  <<Call("edgar_download", "", FALSE)>>)
    ELSE IF directory.num_downloaded = 0
    THEN Returned(Result(ticker, <<>>,
                         <<"No NPORT-P filings found via auto-discovery.">>),
                  <<Call("edgar_download", "", FALSE)>>)
    ELSE _parse_auto_discovered_filings(ticker, directory,
                                        <<Call("edgar_download", "", FALSE)>>)

\* ------------------------------------------------------------------ the lookup

\* The extraction method _fetch_fresh_data dispatches to.
DispatchedPath(ticker) ==
    IF ticker \in DOMAIN ISHARES_ETF_MAPPINGS THEN "_extract_via_ishares_csv"
    ELSE IF ticker \in DOMAIN AMUNDI_ETF_MAPPINGS THEN "_extract_via_amundi_api"
    ELSE IF ticker \in DOMAIN known THEN "_extract_via_known_mapping"
    ELSE IF enable_auto_discovery THEN "_extract_via_auto_discovery"
    ELSE "none"

\* A mutant: the known CIK table is consulted before the iShares and the
\* Amundi tables.
_fetch_fresh_data_known_first(ticker, max_filings, world) ==
    IF ticker \in DOMAIN known
    THEN Via("_extract_via_known_mapping",
             _extract_via_known_mapping(ticker, max_filings, known[ticker], world.sec))
    ELSE IF ticker \in DOMAIN ISHARES_ETF_MAPPINGS
    THEN Via("_extract_via_ishares_csv", _extract_via_ishares_csv(ticker, world.ishares))
    ELSE IF ticker \in DOMAIN AMUNDI_ETF_MAPPINGS
    THEN Via("_extract_via_amundi_api", _extract_via_amundi_api(ticker, world.amundi))
    ELSE IF enable_auto_discovery
    THEN Via("_extract_via_auto_discovery",
             _extract_via_auto_discovery(ticker, max_filings, world.directory))
    ELSE Returned(Result(ticker, <<>>,
             <<"CIK/series not found via known trusts (auto-discovery disabled).">>),
             <<>>)

\* A mutant: auto-discovery is tried whether enabled or not.
_fetch_fresh_data_always_discover(ticker, max_filings, world) ==
    IF ticker \in DOMAIN ISHARES_ETF_MAPPINGS
    THEN Via("_extract_via_ishares_csv", _extract_via_ishares_csv(ticker, world.ishares))
    ELSE IF ticker \in DOMAIN AMUNDI_ETF_MAPPINGS
    THEN Via("_extract_via_amundi_api", _extract_via_amundi_api(ticker, world.amundi))
    ELSE IF ticker \in DOMAIN known
    THEN Via("_extract_via_known_mapping",
             _extract_via_known_mapping(ticker, max_filings, known[ticker], world.sec))
    ELSE Via("_extract_via_auto_discovery",
             _extract_via_auto_discovery(ticker, max_filings, world.directory))

\* world: what each external service answers during this lookup.
_fetch_fresh_data(ticker, max_filings, world) ==
    IF ticker \in DOMAIN ISHARES_ETF_MAPPINGS
    THEN Via("_extract_via_ishares_csv", _extract_via_ishares_csv(ticker, world.ishares))
    ELSE IF ticker \in DOMAIN AMUNDI_ETF_MAPPINGS
    THEN Via("_extract_via_amundi_api", _extract_via_amundi_api(ticker, world.amundi))
    ELSE IF ticker \in DOMAIN known
    THEN Via("_extract_via_known_mapping",
             _extract_via_known_mapping(ticker, max_filings, known[ticker], world.sec))
    ELSE IF enable_auto_discovery
    THEN Via("_extract_via_auto_discovery",
             _extract_via_auto_discovery(ticker, max_filings, world.directory))
    ELSE Returned(Result(ticker, <<>>,
             <<"CIK/series not found via known trusts (auto-discovery disabled).">>),
             <<>>)

\* A mutant: the ticker is used as typed, without ticker.upper().
get_etf_holdings_as_typed(d, ticker, max_filings, world) ==
    LET cached_data == IF enable_cache THEN get_cached_data(d, ticker, max_filings)
                       ELSE None
        fresh == _fetch_fresh_data(ticker, max_filings, world)
    IN IF cached_data # None
       THEN [out |-> [hit |-> TRUE] @@ Returned(StripCacheInfo(cached_data), <<>>),
             disk |-> d]
       ELSE [out |-> [hit |-> FALSE] @@ fresh,
             disk |-> IF ~HasRaised(fresh) /\ enable_cache /\ fresh.ret.rows # <<>>
                      THEN store_data(d, ticker, max_filings, fresh.ret)
                      ELSE d]

\* A mutant: every result that did not raise is stored, rows or not.
get_etf_holdings_store_all(d, ticker, max_filings, world) ==
    LET t == Upper(ticker)
        cached_data == IF enable_cache THEN get_cached_data(d, t, max_filings) ELSE None
        fresh == _fetch_fresh_data(t, max_filings, world)
    IN IF cached_data # None
       THEN [out |-> [hit |-> TRUE] @@ Returned(StripCacheInfo(cached_data), <<>>),
             disk |-> d]
       ELSE [out |-> [hit |-> FALSE] @@ fresh,
             disk |-> IF ~HasRaised(fresh) /\ enable_cache
                      THEN store_data(d, t, max_filings, fresh.ret)
                      ELSE d]

\* A mutant: the data is fetched before the cache is asked.
get_etf_holdings_fetch_first(d, ticker, max_filings, world) ==
    LET t == Upper(ticker)
        cached_data == IF enable_cache THEN get_cached_data(d, t, max_filings) ELSE None
        fresh == _fetch_fresh_data(t, max_filings, world)
    IN IF cached_data # None
       THEN [out |-> [hit |-> TRUE]
                     @@ [Returned(StripCacheInfo(cached_data), <<>>)
                            EXCEPT !.net = fresh.net, !.path = fresh.path],
             disk |-> d]
       ELSE [out |-> [hit |-> FALSE] @@ fresh,
             disk |-> IF ~HasRaised(fresh) /\ enable_cache /\ fresh.ret.rows # <<>>
                      THEN store_data(d, t, max_filings, fresh.ret)
                      ELSE d]

\* get_etf_holdings on the cache directory d: what it hands back (with hit,
\* whether the cache answered) and the cache directory afterwards.  A cached
\* dict carries the stamp, so it is never empty and always counts as true.
get_etf_holdings(d, ticker, max_filings, world) ==
    LET t == Upper(ticker)
        cached_data == IF enable_cache THEN get_cached_data(d, t, max_filings) ELSE None
        fresh == _fetch_fresh_data(t, max_filings, world)
    IN IF cached_data # None
       THEN [out |-> [hit |-> TRUE] @@ Returned(StripCacheInfo(cached_data), <<>>),
             disk |-> d]
       ELSE [out |-> [hit |-> FALSE] @@ fresh,
             disk |-> IF ~HasRaised(fresh) /\ enable_cache /\ fresh.ret.rows # <<>>
                      THEN store_data(d, t, max_filings, fresh.ret)
                      ELSE d]

\* ------------------------------------------------------------------ the batch

\* cache_ttl_days of ETFHoldingsExtractor() with the default arguments.
DefaultTtlDays == 3

\* sum(1 for r in all_results.values() if r["rows"])
CountWithRows(all_results) ==
    Cardinality({t \in DOMAIN all_results : all_results[t].rows # <<>>})

\* The loop of get_multiple_etf_holdings from ticker i on.  worlds[i] is what
\* the external services answer during the i-th lookup; done lists the
\* tickers whose lookup has returned.  A lookup that raises ends the loop:
\* the function has no except clause, only the finally that cleans up.
RECURSIVE BatchLoop(_, _, _, _, _, _, _, _)
BatchLoop(d, tickers, i, max_filings, worlds, all_results, all_rows, done) ==
    IF i > Len(tickers)
    THEN [raised |-> FALSE, exc |-> "", done |-> done, disk |-> d,
          ret |-> [individual_results |-> all_results,
                   consolidated_holdings |-> all_rows,
                   summary |-> [total_etfs_processed |-> Len(tickers),
                                etfs_with_holdings |-> CountWithRows(all_results),
                                total_positions |-> Len(all_rows)]]]
    ELSE LET r == get_etf_holdings(d, tickers[i], max_filings, worlds[i])
         IN IF HasRaised(r.out)
            THEN [raised |-> TRUE, exc |-> r.out.exc, done |-> done, disk |-> r.disk,
                  ret |-> None]
            ELSE BatchLoop(r.disk, tickers, i + 1, max_filings, worlds,
                           Put(all_results, tickers[i], r.out.ret),
                           all_rows \o r.out.ret.rows,
                           Append(done, tickers[i]))

get_multiple_etf_holdings(d, tickers, max_filings, worlds) ==
    BatchLoop(d, tickers, 1, max_filings, worlds, Empty, <<>>, <<>>)

\* ------------------------------------------------------------------ inputs

\* The longest response (lines, entries, filings, directories) drawn.
MaxItems == 2

\* The longest ticker list of a batch.
MaxBatch == 2

SeqsUpTo(S, n) == UNION {[1..k -> S] : k \in 0..n}

\* Lines of an iShares response: preamble text, the header, a holding, the
\* cash line with the placeholder symbol, a line the csv reader rejects.
IsharesLines ==
    {[kind |-> "pre"], [kind |-> "hdr"], [kind |-> "bad"],
     [kind |-> "rec", Ticker |-> "AAPL", Name |-> "APPLE INC"],
     [kind |-> "rec", Ticker |-> "-", Name |-> "USD CASH"]}

IsharesResponses ==
    {[kind |-> "error", err |-> "ReadTimeout"],
     [kind |-> "error", err |-> "404 Client Error"]}
    \cup {[kind |-> "text", text |-> l] : l \in SeqsUpTo(IsharesLines, MaxItems)}

\* Entries of an Amundi composition: named (with or without a date),
\* nameless, and one that is no JSON object.
AmundiEntries ==
    {[shape |-> "dict", name |-> "SAP SE", bbg |-> "SAP GY", isin |-> "DE0007164600",
      quantity |-> "100.0", weight |-> <<3250000>>, date |-> "2024-06-28"],
     [shape |-> "dict", name |-> "SIEMENS AG", bbg |-> "", isin |-> "DE0007236101",
      quantity |-> "null", weight |-> <<5000000>>, date |-> ""],
     [shape |-> "dict", name |-> "", bbg |-> "", isin |-> "",
      quantity |-> "null", weight |-> <<>>, date |-> "2024-06-27"],
     [shape |-> "str"]}

AmundiResponses ==
    {[kind |-> "RequestException", err |-> "ReadTimeout"],
     [kind |-> "RequestException", err |-> "503 Server Error"],
     [kind |-> "ValueError", err |-> "Expecting value"],
     [kind |-> "json", data |-> [shape |-> "list"]],
     [kind |-> "json", data |-> [shape |-> "dict", products |-> <<>>]],
     [kind |-> "json", data |-> [shape |-> "dict", products |-> <<[shape |-> "str"]>>]]}
    \cup {[kind |-> "json",
           data |-> [shape |-> "dict",
                     products |-> <<[shape |-> "dict", compositionData |-> es]>>]] :
            es \in SeqsUpTo(AmundiEntries, MaxItems)}

\* N-PORT documents: one position, matching or carrying no match signal; no
\* position; bytes that are no XML.
Position1 ==
    (<<"issuer", "edgar:">> :> <<"APPLE INC">>)
    @@ (<<"title", "edgar:">> :> <<"COMMON STOCK">>)
    @@ (<<"cusip", "edgar:">> :> <<"037833100">>)
    @@ (<<"isin", "edgar:">> :> <<"US0378331005">>)
    @@ (<<"balance", "edgar:">> :> <<"100">>)
    @@ (<<"valUSD", "edgar:">> :> <<"2500.00">>)
    @@ (<<"pctVal", "edgar:">> :> <<"0.05">>)

\* No path of candidates finds a node.
NoPaths == [p \in 1..Len(candidates) |-> <<>>]

DocGood == [xml_ok |-> TRUE, has_series |-> TRUE, has_ticker |-> TRUE,
            paths |-> [NoPaths EXCEPT ![1] = <<Position1>>]]

DocNoSignal == [xml_ok |-> TRUE, has_series |-> FALSE, has_ticker |-> FALSE,
                paths |-> [NoPaths EXCEPT ![1] = <<Position1>>]]

DocEmpty == [xml_ok |-> TRUE, has_series |-> TRUE, has_ticker |-> TRUE,
             paths |-> NoPaths]

DocBad == [xml_ok |-> FALSE, has_series |-> FALSE, has_ticker |-> TRUE,
           paths |-> NoPaths]

\* What the archive answers for one filing.
Served(manifest, names, doc, content) ==
    [manifest |-> manifest, files |-> names, doc |-> doc, content |-> content]

CatalogEntry(form, acc, date, served) ==
    [form |-> form, accessionNumber |-> acc, filingDate |-> date,
     primaryDocument |-> "primary_doc.xml", served |-> served]

\* Catalog entries: dates are yyyymmdd numbers, ordered as the ISO strings.
CatalogEntries ==
    {CatalogEntry("NPORT-P", "0001-24-000007", 20240429,
                  Served("ok", <<"index.html", "primary_doc.xml">>, "ok", DocGood)),
     CatalogEntry("NPORT-P", "0001-24-000002", 20240130,
                  Served("ok", <<"other.xml", "nport_holdings.xml">>, "ok", DocNoSignal)),
     CatalogEntry("NPORT-P", "0001-24-000006", 20240429,
                  Served("ok", <<"primary_doc.xml">>, "ok", DocEmpty)),
     CatalogEntry("NPORT-P", "0001-24-000001", 20240130,
                  Served("error", <<>>, "error", DocBad)),
     CatalogEntry("NPORT-EX", "0001-24-000005", 20240429,
                  Served("ok", <<"index.html">>, "error", DocBad)),
     CatalogEntry("NPORT-P", "0001-24-000003", 20240130,
                  Served("ok", <<"other.xml">>, "error", DocBad)),
     CatalogEntry("N-CSR", "0001-24-000004", 20240429,
                  Served("ok", <<"primary_doc.xml">>, "ok", DocGood))}

SecResponses ==
    {[kind |-> "RequestException", err |-> "ReadTimeout"],
     [kind |-> "RequestException", err |-> "403 Client Error"],
     [kind |-> "json", shape |-> "list"],
     [kind |-> "json", shape |-> "dict",
      recent |-> <<CatalogEntry(NullStr, "0001-24-000001", 20240130,
                                Served("error", <<>>, "error", DocBad))>>]}
    \cup {[kind |-> "json", shape |-> "dict", recent |-> fs] :
            fs \in SeqsUpTo(CatalogEntries, MaxItems)}

\* Downloaded filing directories.
FilingDirs ==
    {[name |-> 1, submission |-> TRUE, has_xml |-> TRUE, content |-> DocGood],
     [name |-> 2, submission |-> TRUE, has_xml |-> TRUE, content |-> DocEmpty],
     [name |-> 3, submission |-> FALSE, has_xml |-> FALSE, content |-> DocBad],
     [name |-> 4, submission |-> TRUE, has_xml |-> FALSE, content |-> DocBad]}

Directory(listed, download, n, folder, dirs) ==
    [listed |-> listed, download |-> download, err |-> "ConnectionError",
     num_downloaded |-> n, folder |-> folder, dirs |-> dirs]

\* Directory names are distinct.
DirectoryStates ==
    {Directory(FALSE, "ok", 0, FALSE, <<>>),
     Directory(TRUE, "error", 0, FALSE, <<>>),
     Directory(TRUE, "ok", 0, FALSE, <<>>),
     Directory(TRUE, "ok", 1, FALSE, <<>>)}
    \cup {Directory(TRUE, "ok", Len(ds), TRUE, ds) :
            ds \in {x \in SeqsUpTo(FilingDirs, MaxItems) :
                      x # <<>> /\ \A i, j \in 1..Len(x) : i # j => x[i].name # x[j].name}}

\* Every service failing.
WorldDown ==
    [ishares |-> [kind |-> "error", err |-> "ReadTimeout"],
     amundi |-> [kind |-> "RequestException", err |-> "ReadTimeout"],
     sec |-> [kind |-> "RequestException", err |-> "ReadTimeout"],
     directory |-> Directory(FALSE, "ok", 0, FALSE, <<>>)]

\* The answers a lookup of the (uppercase) ticker can meet: those of the
\* one service it asks.
WorldsFor(ticker) ==
    CASE DispatchedPath(ticker) = "_extract_via_ishares_csv" ->
            {[WorldDown EXCEPT !.ishares = r] : r \in IsharesResponses}
      [] DispatchedPath(ticker) = "_extract_via_amundi_api" ->
            {[WorldDown EXCEPT !.amundi = r] : r \in AmundiResponses}
      [] DispatchedPath(ticker) = "_extract_via_known_mapping" ->
            {[WorldDown EXCEPT !.sec = r] : r \in SecResponses}
      [] DispatchedPath(ticker) = "_extract_via_auto_discovery" ->
            {[WorldDown EXCEPT !.directory = r] : r \in DirectoryStates}
      [] OTHER -> {WorldDown}

\* ------------------------------------------------------------------ actions

Tick ==
    /\ now < MaxTime
    /\ now' = now + 1
    /\ last' = [op |-> "tick"]
    /\ UNCHANGED <<files, info, puts, ttl, enable_cache, enable_auto_discovery, known>>

\* ETFHoldingsExtractor.__init__ on the same cache directory: the flags, and
\* with enable_cache a new ETFHoldingsCache with the given TTL.
ExtractorInit(auto_discovery, cache, cache_ttl_days) ==
    /\ enable_auto_discovery' = auto_discovery
    /\ enable_cache' = cache
    /\ ttl' = IF cache THEN cache_ttl_days ELSE ttl
    /\ last' = [op |-> "__init__"]
    /\ UNCHANGED <<files, info, puts, now, known>>

SetDisk(d) ==
    /\ files' = d.files
    /\ info' = d.info
    /\ puts' = d.puts

StoreData(ticker, max_filings, data) ==
    /\ SetDisk(store_data(Disk, ticker, max_filings, data))
    /\ last' = [op |-> "store_data", ticker |-> ticker, max_filings |-> max_filings,
                data |-> data]
    /\ UNCHANGED <<ttl, now, enable_cache, enable_auto_discovery, known>>

GetCachedData(ticker, max_filings) ==
    /\ last' = [op |-> "get_cached_data", ticker |-> ticker,
                max_filings |-> max_filings,
                ret |-> get_cached_data(Disk, ticker, max_filings)]
    /\ UNCHANGED <<files, info, puts, ttl, now, enable_cache, enable_auto_discovery, known>>

IsCacheValid(ticker, max_filings) ==
    /\ last' = [op |-> "is_cache_valid", ticker |-> ticker,
                max_filings |-> max_filings,
                ret |-> is_cache_valid(Disk, ticker, max_filings)]
    /\ UNCHANGED <<files, info, puts, ttl, now, enable_cache, enable_auto_discovery, known>>

ClearCache(ticker) ==
    /\ SetDisk(clear_cache(Disk, ticker))
    /\ last' = [op |-> "clear_cache", ticker |-> ticker]
    /\ UNCHANGED <<ttl, now, enable_cache, enable_auto_discovery, known>>

ClearCacheAll ==
    /\ SetDisk(clear_cache_all(Disk))
    /\ last' = [op |-> "clear_cache", ticker |-> ""]
    /\ UNCHANGED <<ttl, now, enable_cache, enable_auto_discovery, known>>

CleanupExpired ==
    /\ SetDisk(cleanup_expired(Disk))
    /\ last' = [op |-> "cleanup_expired",
                ret |-> Cardinality(expired_tickers(Disk)),
                unlinked |-> cleanup_expired_unlinked(Disk)]
    /\ UNCHANGED <<ttl, now, enable_cache, enable_auto_discovery, known>>

GetEtfHoldings(ticker, max_filings, world) ==
    LET r == get_etf_holdings(Disk, ticker, max_filings, world)
    IN /\ SetDisk(r.disk)
       /\ last' = [op |-> "get_etf_holdings", ticker |-> ticker,
                   max_filings |-> max_filings] @@ r.out
       /\ UNCHANGED <<ttl, now, enable_cache, enable_auto_discovery, known>>

\* get_multiple_etf_holdings builds ETFHoldingsExtractor() with the default
\* arguments: the cache on, the default TTL, auto-discovery on.
GetMultipleEtfHoldings(tickers, max_filings, worlds) ==
    LET r == get_multiple_etf_holdings(Disk, tickers, max_filings, worlds)
    IN /\ enable_cache /\ enable_auto_discovery /\ ttl = DefaultTtlDays
       /\ SetDisk(r.disk)
       /\ last' = [op |-> "get_multiple_etf_holdings", tickers |-> tickers,
                   max_filings |-> max_filings, raised |-> r.raised, exc |-> r.exc,
                   done |-> r.done, ret |-> r.ret]
       /\ UNCHANGED <<ttl, now, enable_cache, enable_auto_discovery, known>>

\* discover_etf.test_cik_for_nport(cik, ticker): the entry is written into
\* the class dict itself; "restoring" assigns the copy to the instance, so
\* the class dict keeps the entry.  The function returns (success, result),
\* (False, None) when the extraction raises.
TestCikForNport(cik, ticker, response) ==
    LET mapping == [cik |-> cik, series_id |-> NoSeries]
        o == _extract_via_known_mapping(Upper(ticker), 10, mapping, response)
    IN /\ known' = Put(known, Upper(ticker), mapping)
       /\ last' = [op |-> "test_cik_for_nport", ticker |-> ticker,
                   success |-> ~HasRaised(o) /\ o.ret.rows # <<>>,
                   ret |-> o.ret]
       /\ UNCHANGED <<files, info, puts, ttl, now, enable_cache, enable_auto_discovery>>

\* ------------------------------------------------------------------ the cache in use

\* The cache keys (ticker, max_filings) and the TTLs of the cache
\* specification: one ticker at two scan depths.
CacheKeys == {<<"IVV", 5>>, <<"IVV", 50>>}

\* The lookups: the keys, and one in another spelling of the ticker.
LookupKeys == CacheKeys \cup {<<"ivv", 5>>}

TTLs == {-1, 0, 1, 2}

HeaderLine == [kind |-> "hdr"]

HoldingLine == [kind |-> "rec", Ticker |-> "AAPL", Name |-> "APPLE INC"]

\* The results stored directly: what the extractor makes of a feed of one
\* and of two holdings.
SampleResults(ticker) ==
    {_parse_ishares_csv(<<HeaderLine, HoldingLine>>, ticker),
     _parse_ishares_csv(<<HeaderLine, HoldingLine, HoldingLine>>, ticker)}

\* The feed down, or delivering one or two holdings.
CacheWorlds ==
    {[WorldDown EXCEPT !.ishares = r] :
        r \in {[kind |-> "error", err |-> "ReadTimeout"],
               [kind |-> "text", text |-> <<HeaderLine, HoldingLine>>],
               [kind |-> "text", text |-> <<HeaderLine, HoldingLine, HoldingLine>>]}}

Init ==
    /\ files = Empty
    /\ info = Empty
    /\ puts = Empty
    /\ ttl \in TTLs
    /\ now = 0
    /\ enable_cache = TRUE
    /\ enable_auto_discovery = TRUE
    /\ known = KNOWN_ETF_CIKS
    /\ last = [op |-> "__init__"]

Next ==
    \/ Tick
    \/ \E c \in TTLs : ExtractorInit(TRUE, TRUE, c)
    \/ \E k \in CacheKeys : \E data \in SampleResults(k[1]) : StoreData(k[1], k[2], data)
    \/ \E k \in CacheKeys : GetCachedData(k[1], k[2])
    \/ \E k \in CacheKeys : IsCacheValid(k[1], k[2])
    \/ \E k \in CacheKeys : ClearCache(k[1])
    \/ ClearCacheAll
    \/ CleanupExpired
    \/ \E k \in LookupKeys, w \in CacheWorlds : GetEtfHoldings(k[1], k[2], w)

Spec == Init /\ [][Next]_vars

\* ------------------------------------------------------------------ claims: cache

\* The cache key the last operation named.
LastKey == <<Upper(last.ticker), last.max_filings>>

\* The age of the entry written under key k.
AgeOf(k) == now - puts[k].at

CachedAt(f) == files[f].content["_cache_info"].cached_at

\* C6 as stated: an entry is valid, and served, iff now - cachedAt < ttl.
C6_StrictValidity ==
    /\ (last.op = "is_cache_valid" /\ LastKey \in DOMAIN files)
          => (last.ret <=> now - CachedAt(LastKey) < ttl)
    /\ (last.op = "get_cached_data" /\ LastKey \in DOMAIN files)
          => (last.ret # None <=> now - CachedAt(LastKey) < ttl)

\* C6 amended: an entry is valid, and served, iff ttl > 0 and
\* now - cachedAt <= ttl: at an age equal to the TTL it is still valid, at
\* every greater age it is not.
C6_Validity ==
    /\ (last.op = "is_cache_valid" /\ LastKey \in DOMAIN files)
          => (last.ret <=> (ttl > 0 /\ now - CachedAt(LastKey) <= ttl))
    /\ (last.op = "get_cached_data" /\ LastKey \in DOMAIN files)
          => (last.ret # None <=> (ttl > 0 /\ now - CachedAt(LastKey) <= ttl))

\* C6 witness: is_cache_valid answers True for an entry whose age is the TTL.
C6_Witness ==
    /\ last.op = "is_cache_valid"
    /\ LastKey \in DOMAIN files
    /\ ttl > 0
    /\ now - CachedAt(LastKey) = ttl
    /\ last.ret = TRUE

\* C7: with ttl <= 0, store_data (called directly or by a lookup) creates no
\* payload file and changes no index record, and get_cached_data returns
\* nothing, also for a key whose payload file is on disk.
C7_TtlZeroNoOp ==
    [][ttl <= 0
       => /\ last'.op \in {"store_data", "get_etf_holdings"}
                => files' = files /\ info' = info
          /\ last'.op = "get_cached_data" => last'.ret = None
          /\ last'.op = "get_etf_holdings" => ~last'.hit
      ]_vars

\* C7 witness: get_cached_data returns nothing for a key whose file exists.
C7_Witness ==
    /\ ttl <= 0
    /\ last.op = "get_cached_data"
    /\ LastKey \in DOMAIN files
    /\ last.ret = None

\* C8: entries of one ticker at different max_filings are distinct: a read
\* of a key stored (and not removed since) inside its TTL returns what was
\* stored under that very key, and a read of a key never stored, or removed
\* since, returns nothing.
C8_DistinctDepths ==
    last.op = "get_cached_data"
    => /\ LastKey \notin DOMAIN puts => last.ret = None
       /\ (LastKey \in DOMAIN puts /\ ttl > 0 /\ AgeOf(LastKey) < ttl)
             => /\ last.ret # None
                /\ StripCacheInfo(last.ret) = puts[LastKey].data
                /\ last.ret["_cache_info"].max_filings = last.max_filings

\* C8 witness: both depths of a ticker hold different results and a read
\* returns the one of its own depth.
C8_Witness ==
    /\ last.op = "get_cached_data"
    /\ last.ret # None
    /\ \E k \in DOMAIN puts :
          /\ k # LastKey
          /\ k[1] = LastKey[1]
          /\ LastKey \in DOMAIN puts
          /\ puts[k].data # puts[LastKey].data
          /\ StripCacheInfo(last.ret) = puts[LastKey].data

\* C9 as stated: after cleanup_expired no invalid entry is left in the
\* payload store, and the count returned is the number of entries removed.
C9_SweepRemovesAllInvalid ==
    last.op = "cleanup_expired"
    => /\ \A f \in DOMAIN files : is_cache_valid(Disk, f[1], f[2])
       /\ last.ret = Cardinality(last.unlinked)

\* ------------------------------------------------------------------ the lookup in use

\* The lookups get_etf_holdings(ticker, max_filings) of the lookup
\* specification: a ticker of each table (one in two spellings, one with a
\* series id), one of none, and two scan depths on the filing path.
Lookups ==
    {<<"IVV", 50>>, <<"ivv", 50>>, <<"CG1", 50>>, <<"RSP", 1>>, <<"RSP", 50>>,
     <<"VTI", 50>>, <<"BIL", 50>>}

\* What the submissions url answers while discover_etf tries a CIK for
\* the ticker "IVV".
TestedResponses ==
    {[kind |-> "RequestException", err |-> "ReadTimeout"],
     [kind |-> "json", shape |-> "list"]}

\* The extractor without a cache: only the dispatch and the paths act.
InitLookup ==
    /\ files = Empty
    /\ info = Empty
    /\ puts = Empty
    /\ ttl = DefaultTtlDays
    /\ now = 0
    /\ enable_cache = FALSE
    /\ enable_auto_discovery \in BOOLEAN
    /\ known = KNOWN_ETF_CIKS
    /\ last = [op |-> "__init__"]

NextLookup ==
    \/ \E a \in BOOLEAN : ExtractorInit(a, FALSE, DefaultTtlDays)
    \/ \E l \in Lookups : \E w \in WorldsFor(Upper(l[1])) : GetEtfHoldings(l[1], l[2], w)
    \/ \E r \in TestedResponses : TestCikForNport("0001100663", "IVV", r)

SpecLookup == InitLookup /\ [][NextLookup]_vars

\* ------------------------------------------------------------------ claims: lookup

\* C1 as stated: in every result get_etf_holdings returns, rows is non-empty
\* if and only if note starts with the success marker.
C1_RowsIffSuccessNote ==
    (last.op = "get_etf_holdings" /\ ~last.raised)
    => (last.ret.rows # <<>> <=> HasSuccessMarker(last.ret.note))

\* C2 as stated: get_etf_holdings never raises, whatever the services answer.
C2_LookupNeverRaises ==
    last.op = "get_etf_holdings" => ~last.raised

\* C10: a lookup the cache does not answer enters exactly one extraction
\* path, the first that matches in the order iShares table, Amundi table,
\* known CIK table, auto-discovery if enabled; with no match it enters none,
\* issues no network call and returns the unresolved note.  The network
\* calls issued are those of the path entered.
C10_Precedence ==
    (last.op = "get_etf_holdings" /\ ~last.hit)
    => LET t == Upper(last.ticker)
       IN /\ Len(last.path) <= 1
          /\ t \in DOMAIN ISHARES_ETF_MAPPINGS
                => /\ last.path = <<"_extract_via_ishares_csv">>
                   /\ Len(last.net) = 1 /\ last.net[1].call = "ishares_csv"
          /\ (t \notin DOMAIN ISHARES_ETF_MAPPINGS /\ t \in DOMAIN AMUNDI_ETF_MAPPINGS)
                => /\ last.path = <<"_extract_via_amundi_api">>
                   /\ Len(last.net) = 1 /\ last.net[1].call = "amundi_api"
          /\ (/\ t \notin DOMAIN ISHARES_ETF_MAPPINGS
              /\ t \notin DOMAIN AMUNDI_ETF_MAPPINGS
              /\ t \in DOMAIN known)
                => /\ last.path = <<"_extract_via_known_mapping">>
                   /\ last.net[1].call = "submissions"
                   /\ \A i \in 2..Len(last.net) :
                         last.net[i].call \in {"manifest", "document"}
          /\ (/\ t \notin DOMAIN ISHARES_ETF_MAPPINGS
              /\ t \notin DOMAIN AMUNDI_ETF_MAPPINGS
              /\ t \notin DOMAIN known
              /\ enable_auto_discovery)
                => /\ last.path = <<"_extract_via_auto_discovery">>
                   /\ \A i \in 1..Len(last.net) : last.net[i].call = "edgar_download"
          /\ (/\ t \notin DOMAIN ISHARES_ETF_MAPPINGS
              /\ t \notin DOMAIN AMUNDI_ETF_MAPPINGS
              /\ t \notin DOMAIN known
              /\ ~enable_auto_discovery)
                => /\ last.path = <<>>
                   /\ last.net = <<>>
                   /\ ~last.raised
                   /\ last.ret.rows = <<>>
                   /\ ~HasSuccessMarker(last.ret.note)

\* C10 witness: a ticker of the iShares table that is also in the known CIK
\* table is looked up and served by the iShares path alone.
C10_Witness ==
    /\ last.op = "get_etf_holdings"
    /\ Upper(last.ticker) \in DOMAIN ISHARES_ETF_MAPPINGS
    /\ Upper(last.ticker) \in DOMAIN known
    /\ last.path = <<"_extract_via_ishares_csv">>
    /\ ~last.raised
    /\ last.ret.rows # <<>>

\* ------------------------------------------------------------------ the batch in use

\* The tickers of a batch: one of the iShares table in two spellings, one of
\* the known CIK table.
BatchTickers == {"IVV", "ivv", "RSP"}

\* The scan depth of the batches (the default of max_filings).
BatchDepth == 50

\* What the one service a ticker's lookup asks answers during it: the feed
\* down or delivering one or two holdings; the submissions url down, answering a JSON
\* list, or listing one filing with a position.
BatchWorlds(ticker) ==
    IF Upper(ticker) \in DOMAIN ISHARES_ETF_MAPPINGS
    THEN {[WorldDown EXCEPT !.ishares = r] :
            r \in {[kind |-> "error", err |-> "ReadTimeout"],
                   [kind |-> "text", text |-> <<HeaderLine, HoldingLine>>],
                   [kind |-> "text", text |-> <<HeaderLine, HoldingLine, HoldingLine>>]}}
    ELSE {[WorldDown EXCEPT !.sec = r] :
            r \in {[kind |-> "RequestException", err |-> "ReadTimeout"],
                   [kind |-> "json", shape |-> "list"],
                   [kind |-> "json", shape |-> "dict",
                    recent |-> <<CatalogEntry("NPORT-P", "0001-24-000007", 20240429,
                                     Served("ok", <<"index.html", "primary_doc.xml">>,
                                            "ok", DocGood))>>]}}

\* A lookup of a batch: the ticker and what its service answers meanwhile.
BatchItems == UNION {{<<t, w>> : w \in BatchWorlds(t)} : t \in BatchTickers}

\* The batches: up to MaxBatch lookups, repeats included.
Batches == SeqsUpTo(BatchItems, MaxBatch)

\* The extractor get_multiple_etf_holdings builds, on an empty cache.
InitBatch ==
    /\ files = Empty
    /\ info = Empty
    /\ puts = Empty
    /\ ttl = DefaultTtlDays
    /\ now = 0
    /\ enable_cache = TRUE
    /\ enable_auto_discovery = TRUE
    /\ known = KNOWN_ETF_CIKS
    /\ last = [op |-> "__init__"]

NextBatch ==
    \/ \E batch \in Batches :
          GetMultipleEtfHoldings([i \in 1..Len(batch) |-> batch[i][1]], BatchDepth,
                                 [i \in 1..Len(batch) |-> batch[i][2]])
    \/ \E t \in {Upper(x) : x \in BatchTickers} : ClearCache(t)

SpecBatch == InitBatch /\ [][NextBatch]_vars

\* ------------------------------------------------------------------ claims: batch

\* sum(len(r["rows"]) for r in individual_results.values()) over the keys S.
RECURSIVE SumOfRows(_, _)
SumOfRows(individual_results, S) ==
    IF S = {} THEN 0
    ELSE LET t == CHOOSE x \in S : TRUE
         IN Len(individual_results[t].rows) + SumOfRows(individual_results, S \ {t})

\* C3 as stated: in the summary of every batch that returns,
\* total_etfs_processed is the length of the ticker list, etfs_with_holdings
\* the number of entries of individual_results with rows, and total_positions
\* the sum of len(rows) over the entries of individual_results.
C3_SummaryCounts ==
    (last.op = "get_multiple_etf_holdings" /\ ~last.raised)
    => LET summary == last.ret.summary
           individual_results == last.ret.individual_results
       IN /\ summary.total_etfs_processed = Len(last.tickers)
          /\ summary.etfs_with_holdings =
                Cardinality({t \in DOMAIN individual_results :
                                individual_results[t].rows # <<>>})
          /\ summary.total_positions =
                SumOfRows(individual_results, DOMAIN individual_results)

\* C4 as stated: a batch is never aborted by the failure of one lookup: it
\* returns, every ticker of the list was looked up, in input order, and
\* individual_results has an entry for each.
C4_BatchNeverAborts ==
    last.op = "get_multiple_etf_holdings"
    => /\ ~last.raised
       /\ last.done = last.tickers
       /\ \A i \in 1..Len(last.tickers) :
             last.tickers[i] \in DOMAIN last.ret.individual_results

\* ------------------------------------------------------------------ claims: casing

\* C11: a lookup of "ivv" and a lookup of "IVV" resolve alike (the iShares
\* path), use the one cache key ("IVV", max_filings) for the read and for
\* the write, touch no other payload file, and return a result whose ticker
\* is "IVV".
C11_CaseInsensitive ==
    [][(last'.op = "get_etf_holdings" /\ last'.ticker \in {"ivv", "IVV"})
       => LET k == <<"IVV", last'.max_filings>>
          IN /\ ~last'.raised /\ last'.ret.ticker = "IVV"
             /\ ~last'.hit => last'.path = <<"_extract_via_ishares_csv">>
             /\ last'.hit <=> is_cache_valid(Disk, "IVV", last'.max_filings)
             /\ last'.hit => /\ last'.ret = StripCacheInfo(files[k].content)
                             /\ files' = files
             /\ \A f \in DOMAIN files' :
                   f # k => f \in DOMAIN files /\ files'[f] = files[f]
             /\ (~last'.hit /\ last'.ret.rows # <<>> /\ ttl > 0)
                   => /\ k \in DOMAIN files'
                      /\ StripCacheInfo(files'[k].content) = last'.ret
                      /\ files'[k].mtime = now
      ]_vars

\* C11 witness: a lookup typed in lower case is answered from the entry
\* stored under the uppercase key.
C11_Witness ==
    /\ last.op = "get_etf_holdings"
    /\ last.ticker = "ivv"
    /\ last.hit
    /\ last.ret.ticker = "IVV"
    /\ <<"IVV", 5>> \in DOMAIN files

\* ------------------------------------------------------------------ the filing paths in use

\* The longest catalog of filings a submissions response lists.
MaxCatalog == 6

\* The accession number of the i-th filing a catalog lists.
Accession(i) ==
    CASE i = 1 -> "0001-24-000001" [] i = 2 -> "0001-24-000002"
      [] i = 3 -> "0001-24-000003" [] i = 4 -> "0001-24-000004"
      [] i = 5 -> "0001-24-000005" [] i = 6 -> "0001-24-000006"
      [] OTHER -> "0001-24-000007"

\* The filing date (a yyyymmdd number) of the i-th filing listed: the
\* catalog lists newest first, oldest first, or in no order.  Dates of one
\* catalog are distinct.
DateAt(pattern, i) ==
    CASE pattern = "newest_first" -> 20240110 - i
      [] pattern = "oldest_first" -> 20240100 + i
      [] OTHER -> IF i % 2 = 1 THEN 20240100 + i ELSE 20240110 - i

DatePatterns == {"newest_first", "oldest_first", "unordered"}

\* What the archive answers for a filing, by kind: a document that matches
\* and holds a position; one that holds a position and carries no match
\* signal; one with no position; a manifest that fails; a manifest naming no
\* XML document; a document that fails; a document that is no XML.
ServedAs(kind) ==
    CASE kind = "good" -> Served("ok", <<"index.html", "primary_doc.xml">>, "ok", DocGood)
      [] kind = "no_signal" -> Served("ok", <<"primary_doc.xml">>, "ok", DocNoSignal)
      [] kind = "empty" -> Served("ok", <<"nport_holdings.xml">>, "ok", DocEmpty)
      [] kind = "manifest_error" -> Served("error", <<>>, "error", DocBad)
      [] kind = "no_document" -> Served("ok", <<"index.html">>, "error", DocBad)
      [] kind = "document_error" -> Served("ok", <<"other.xml">>, "error", DocBad)
      [] OTHER -> Served("ok", <<"primary_doc.xml">>, "ok", DocBad)

FilingKinds ==
    {"good", "no_signal", "empty", "manifest_error", "no_document", "document_error",
     "not_xml"}

\* The kinds the long catalogs are made of.
LongKinds == {"good", "no_signal", "manifest_error"}

\* The "recent" table of a submissions response listing N-PORT filings of
\* the given kinds, in this order.
Catalog(kinds, pattern) ==
    [i \in 1..Len(kinds) |->
        [form |-> "NPORT-P", accessionNumber |-> Accession(i),
         filingDate |-> DateAt(pattern, i), primaryDocument |-> "primary_doc.xml",
         served |-> ServedAs(kinds[i])]]

Catalogs ==
    {Catalog(kinds, pattern) :
        kinds \in SeqsUpTo(FilingKinds, MaxItems) \cup SeqsUpTo(LongKinds, MaxCatalog),
        pattern \in DatePatterns}

\* The calls of the filing path: a ticker without and one with a series id,
\* at four scan depths.
FilingDepths == {0, 1, 5, 50}

\* A call about to be made: the arguments and what the services will answer.
InitFilings ==
    /\ files = Empty
    /\ info = Empty
    /\ puts = Empty
    /\ ttl = DefaultTtlDays
    /\ now = 0
    /\ enable_cache = FALSE
    /\ enable_auto_discovery = TRUE
    /\ known = KNOWN_ETF_CIKS
    /\ last \in {[op |-> "call", method |-> "_extract_via_known_mapping",
                  ticker |-> t, max_filings |-> m, recent |-> c] :
                    t \in {"RSP", "VTI"}, m \in FilingDepths, c \in Catalogs}
                \cup {[op |-> "call", method |-> "_extract_via_auto_discovery",
                       ticker |-> "BIL", max_filings |-> m, directory |-> d] :
                        m \in FilingDepths, d \in DirectoryStates}

\* _extract_via_known_mapping(ticker, max_filings) while the submissions url
\* answers the catalog last.recent.
ExtractViaKnownMapping ==
    /\ last.op = "call"
    /\ last.method = "_extract_via_known_mapping"
    /\ last' = [op |-> "_extract_via_known_mapping", ticker |-> last.ticker,
                max_filings |-> last.max_filings, recent |-> last.recent]
               @@ _extract_via_known_mapping(last.ticker, last.max_filings,
                      known[last.ticker],
                      [kind |-> "json", shape |-> "dict", recent |-> last.recent])
    /\ UNCHANGED <<files, info, puts, ttl, now, enable_cache, enable_auto_discovery, known>>

\* _extract_via_auto_discovery(ticker, max_filings) on the directory
\* last.directory.
ExtractViaAutoDiscovery ==
    /\ last.op = "call"
    /\ last.method = "_extract_via_auto_discovery"
    /\ last' = [op |-> "_extract_via_auto_discovery", ticker |-> last.ticker,
                max_filings |-> last.max_filings, directory |-> last.directory]
               @@ _extract_via_auto_discovery(last.ticker, last.max_filings,
                                              last.directory)
    /\ UNCHANGED <<files, info, puts, ttl, now, enable_cache, enable_auto_discovery, known>>

NextFilings ==
    \/ ExtractViaKnownMapping
    \/ ExtractViaAutoDiscovery

SpecFilings == InitFilings /\ [][NextFilings]_vars

\* ------------------------------------------------------------------ claims: filing iteration

IsManifestFetch(c) == c.call = "manifest"

\* The manifest fetches of the last call, in the order issued: one per
\* filing examined.
Examined == SelectSeq(last.net, IsManifestFetch)

\* The catalog entry a fetch was for.
ListedAs(id) ==
    last.recent[CHOOSE i \in 1..Len(last.recent) :
                    StripDashes(last.recent[i].accessionNumber) = id]

\* Whether the filing, fetched and parsed for the ticker of the last call,
\* gives rows: the manifest and the document arrive, the document passes the
\* series check where the ticker has a series id, and it holds a position.
YieldsRows(served) ==
    /\ served.manifest = "ok"
    /\ \E i \in 1..Len(served.files) : served.files[i] \in XmlNames
    /\ served.doc = "ok"
    /\ served.content.xml_ok
    /\ served.content.paths # NoPaths
    /\ known[last.ticker].series_id # NoSeries
          => (served.content.has_series \/ served.content.has_ticker)

\* C12: the filings examined are the newest of the catalog, newest first;
\* a lookup that returns rows ends with the document fetch of the filing its
\* note names, that filing is the first examined that yields rows, and a
\* lookup that returns no rows examined no filing that yields rows.
C12_NewestFirstSuccessEnds ==
    last.op = "_extract_via_known_mapping"
    => /\ ~last.raised
       /\ \A i, j \in 1..Len(Examined) :
             i < j => ListedAs(Examined[i].id).filingDate
                        > ListedAs(Examined[j].id).filingDate
       /\ \A k \in 1..Len(last.recent) :
             (\A i \in 1..Len(Examined) :
                 Examined[i].id # StripDashes(last.recent[k].accessionNumber))
             => \A i \in 1..Len(Examined) :
                   ListedAs(Examined[i].id).filingDate > last.recent[k].filingDate
       /\ \A i \in 1..Len(Examined) - 1 : ~YieldsRows(ListedAs(Examined[i].id).served)
       /\ last.ret.rows # <<>>
             => /\ Examined # <<>>
                /\ YieldsRows(ListedAs(Examined[Len(Examined)].id).served)
                /\ last.net[Len(last.net)] =
                      Call("document", Examined[Len(Examined)].id, TRUE)
                /\ last.ret.note =
                      <<SuccessMarker, "NPORT-P", " ",
                        ListedAs(Examined[Len(Examined)].id).filingDate,
                        " (known mapping)">>
       /\ last.ret.rows = <<>>
             => \A i \in 1..Len(Examined) : ~YieldsRows(ListedAs(Examined[i].id).served)

\* C12 witness: the catalog lists oldest first, the newest filing fails, the
\* second newest yields rows, and older filings that would yield rows too
\* are left unfetched.
C12_Witness ==
    /\ last.op = "_extract_via_known_mapping"
    /\ last.ret.rows # <<>>
    /\ Len(Examined) = 2
    /\ Len(last.recent) >= 4
    /\ Examined[1].id = StripDashes(last.recent[Len(last.recent)].accessionNumber)
    /\ YieldsRows(last.recent[1].served)
    /\ last.recent[1].filingDate < last.recent[2].filingDate


\* C13: a lookup through the known mapping never examines more filings than
\* max_filings, and when it ends without rows after a scan, the number in
\* its note is the number of filings it examined.
C13_NoteCountsExamined ==
    last.op = "_extract_via_known_mapping"
    => /\ Len(Examined) <= last.max_filings
       /\ (~last.raised /\ last.ret.rows = <<>> /\ last.recent # <<>>)
             => last.ret.note = <<"No holdings found after checking ",
                                  Len(Examined), " filings.">>

\* C13 witness: six filings listed, none matches, max_filings is 5 and the
\* note says 5.
C13_Witness ==
    /\ last.op = "_extract_via_known_mapping"
    /\ last.max_filings = 5
    /\ Len(last.recent) = 6
    /\ \A i \in 1..6 : ~YieldsRows(last.recent[i].served)
    /\ last.ret.rows = <<>>
    /\ last.ret.note[2] = 5
    /\ Len(Examined) = 5


\* The k-th newest filing of the catalog of the last call.
NewestAt(k) ==
    last.recent[CHOOSE i \in 1..Len(last.recent) :
                    Cardinality({j \in 1..Len(last.recent) :
                                    last.recent[j].filingDate
                                       > last.recent[i].filingDate}) = k - 1]

\* The filing's document arrives and carries neither the series id nor the
\* ticker.
FailsSeriesCheck(served) ==
    /\ served.manifest = "ok"
    /\ \E i \in 1..Len(served.files) : served.files[i] \in XmlNames
    /\ served.doc = "ok"
    /\ ~served.content.has_series
    /\ ~served.content.has_ticker

\* C14: for a ticker with a series id, when the three newest filings fail
\* the series check and the fourth passes it and parses to rows, the lookup
\* succeeds with the fourth filing in its note, examines exactly the four
\* newest filings, and issues no request for the fifth or an older one.
C14_FourthFilingWins ==
    (/\ last.op = "_extract_via_known_mapping"
     /\ known[last.ticker].series_id # NoSeries
     /\ Len(last.recent) >= 5
     /\ last.max_filings >= 4
     /\ \A k \in 1..3 : FailsSeriesCheck(NewestAt(k).served)
     /\ YieldsRows(NewestAt(4).served))
    => /\ ~last.raised
       /\ last.ret.rows # <<>>
       /\ last.ret.note = <<SuccessMarker, "NPORT-P", " ", NewestAt(4).filingDate,
                            " (known mapping)">>
       /\ Len(Examined) = 4
       /\ \A k \in 1..4 :
             Examined[k].id = StripDashes(NewestAt(k).accessionNumber)
       /\ \A k \in 5..Len(last.recent) : \A n \in 1..Len(last.net) :
             last.net[n].id # StripDashes(NewestAt(k).accessionNumber)

\* C14 witness: the scenario itself, with a fifth filing that would yield
\* rows as well.
C14_Witness ==
    /\ last.op = "_extract_via_known_mapping"
    /\ known[last.ticker].series_id # NoSeries
    /\ Len(last.recent) >= 5
    /\ last.max_filings >= 5
    /\ \A k \in 1..3 : FailsSeriesCheck(NewestAt(k).served)
    /\ YieldsRows(NewestAt(4).served)
    /\ YieldsRows(NewestAt(5).served)
    /\ last.ret.rows # <<>>
    /\ Len(Examined) = 4


\* The number of filings the scan may examine: min(max_filings, listed).
ScanBudget ==
    IF last.max_filings < Len(last.recent) THEN last.max_filings ELSE Len(last.recent)

\* The downloaded filing gives rows when parsed.
DirYieldsRows(d) ==
    /\ d.submission
    /\ d.has_xml
    /\ d.content.xml_ok
    /\ d.content.paths # NoPaths

\* C15: a candidate that fails (manifest not fetched, no document, document
\* not fetched, document not parsable or without rows) does not end the
\* scan: the scan goes on to the next candidate, so the lookup returns rows
\* exactly when some candidate within the budget yields rows, whatever the
\* candidates before it did, and a lookup without rows has examined every
\* candidate.  The same holds for the scan of the downloaded filings.
C15_CandidateErrorsSwallowed ==
    /\ last.op = "_extract_via_known_mapping"
          => /\ ~last.raised
             /\ last.ret.rows # <<>>
                   <=> \E k \in 1..ScanBudget : YieldsRows(NewestAt(k).served)
             /\ \A k \in 1..ScanBudget :
                   (\A j \in 1..(k - 1) : ~YieldsRows(NewestAt(j).served))
                   => /\ Len(Examined) >= k
                      /\ Examined[k].id = StripDashes(NewestAt(k).accessionNumber)
             /\ (last.ret.rows = <<>> /\ last.recent # <<>>)
                   => /\ Len(Examined) = ScanBudget
                      /\ last.ret.note[1] = "No holdings found after checking "
    /\ (/\ last.op = "_extract_via_auto_discovery"
        /\ last.directory.listed
        /\ last.directory.download = "ok"
        /\ last.directory.num_downloaded > 0
        /\ last.directory.folder)
          => /\ ~last.raised
             /\ last.ret.rows # <<>>
                   <=> \E i \in 1..Len(last.directory.dirs) :
                          DirYieldsRows(last.directory.dirs[i])
             /\ last.ret.rows = <<>>
                   => last.ret.note = <<"No holdings found in ",
                                        Len(last.directory.dirs),
                                        " auto-discovered filings.">>

\* C15 witness: the newest filing's manifest cannot be fetched, the next
\* yields no rows, the third yields rows and the lookup returns them.
C15_Witness ==
    /\ last.op = "_extract_via_known_mapping"
    /\ Len(last.recent) >= 3
    /\ NewestAt(1).served.manifest = "error"
    /\ ~YieldsRows(NewestAt(2).served)
    /\ YieldsRows(NewestAt(3).served)
    /\ last.ret.rows # <<>>
    /\ Len(Examined) = 3

\* C16: between two consecutive network calls of a lookup the extractor has
\* slept self.delay, whatever the outcome of the earlier call.
C16_DelayBetweenCalls ==
    last.op = "_extract_via_known_mapping"
    => \A n \in 1..(Len(last.net) - 1) : last.net[n].slept

\* C17: rows come only from a document in which the pre-check found the
\* ticker or the series id: a document without a match signal is not parsed,
\* whether the ticker has a series id or not.
C17_ParsedOnlyAfterMatch ==
    (last.op = "_extract_via_known_mapping" /\ ~last.raised /\ last.ret.rows # <<>>)
    => LET content == ListedAs(Examined[Len(Examined)].id).served.content
       IN content.has_ticker \/ content.has_series


\* ------------------------------------------------------------------ claims: write-through

\* C18: every payload file of the cache holds a result with rows, and a
\* lookup the cache did not answer that raises or returns no rows leaves
\* the payload files and the index as they were; a lookup that changes them
\* returned rows.
C18_OnlyRowsCached ==
    [][/\ \A k \in DOMAIN files' : files'[k].content.rows # <<>>
       /\ (/\ last'.op = "get_etf_holdings"
           /\ ~last'.hit
           /\ (last'.raised \/ last'.ret.rows = <<>>))
             => files' = files /\ info' = info
       /\ (last'.op = "get_etf_holdings" /\ (files' # files \/ info' # info))
             => /\ ~last'.raised
                /\ last'.ret.rows # <<>>
                /\ StripCacheInfo(files'[<<Upper(last'.ticker), last'.max_filings>>].content)
                      = last'.ret
      ]_vars

\* C18 witness: with caching on, a lookup whose entry has expired meets the
\* feed down and returns no rows; the expired entry stays.
C18_Witness ==
    /\ last.op = "get_etf_holdings"
    /\ ~last.hit
    /\ ~last.raised
    /\ last.ret.rows = <<>>
    /\ ttl > 0
    /\ LastKey \in DOMAIN files
    /\ now - files[LastKey].mtime > ttl

\* C19: when the payload file of (ticker, max_filings) exists and is within
\* its TTL, get_etf_holdings returns its content without the stamp, enters
\* no extraction path and issues no network call; otherwise the cache does
\* not answer and the lookup dispatches.
C19_ValidEntryServedWithoutFetch ==
    [][last'.op = "get_etf_holdings"
       => LET k == <<Upper(last'.ticker), last'.max_filings>>
              valid == /\ ttl > 0
                       /\ k \in DOMAIN files
                       /\ now - files[k].mtime <= ttl
          IN /\ valid => /\ last'.hit
                         /\ ~last'.raised
                         /\ last'.ret = StripCacheInfo(files[k].content)
                         /\ last'.path = <<>>
                         /\ last'.net = <<>>
             /\ ~valid => /\ ~last'.hit
                          /\ last'.path # <<>>
                          /\ last'.net # <<>>
      ]_vars

\* C19 witness: a lookup answered by the cache, at an age above zero.
C19_Witness ==
    /\ last.op = "get_etf_holdings"
    /\ last.hit
    /\ last.net = <<>>
    /\ last.path = <<>>
    /\ LastKey \in DOMAIN files
    /\ now - files[LastKey].mtime > 0

\* ------------------------------------------------------------------ claims: unresolved tickers

\* The ticker of the last lookup is in none of the three tables.
NoMapping ==
    /\ Upper(last.ticker) \notin DOMAIN ISHARES_ETF_MAPPINGS
    /\ Upper(last.ticker) \notin DOMAIN AMUNDI_ETF_MAPPINGS
    /\ Upper(last.ticker) \notin DOMAIN known

DisabledNote == <<"CIK/series not found via known trusts (auto-discovery disabled).">>

AbsentNote == <<"Ticker not found in automatic discovery database.">>

\* C20: a lookup of a ticker of no table returns no rows and the note
\* "CIK/series not found ... (auto-discovery disabled)" when auto-discovery
\* is off; with auto-discovery on, a lookup that attempts no download (the
\* ticker is not in the discovery directory) returns no rows and the note
\* "Ticker not found in automatic discovery database."; each note appears
\* in its own case only.
C20_NotFoundNotes ==
    (last.op = "get_etf_holdings" /\ NoMapping)
    => /\ ~enable_auto_discovery
             => /\ ~last.raised
                /\ last.ret.rows = <<>>
                /\ last.ret.note = DisabledNote
       /\ (enable_auto_discovery /\ last.net = <<>>)
             => /\ ~last.raised
                /\ last.ret.rows = <<>>
                /\ last.ret.note = AbsentNote
       /\ (~last.raised /\ last.ret.note = DisabledNote) => ~enable_auto_discovery
       /\ (~last.raised /\ last.ret.note = AbsentNote)
             => enable_auto_discovery /\ last.net = <<>>

\* C20 witness: with auto-discovery on, a ticker of no table that the
\* discovery directory does not list is looked up.
C20_Witness ==
    /\ last.op = "get_etf_holdings"
    /\ NoMapping
    /\ enable_auto_discovery
    /\ last.ret.rows = <<>>
    /\ last.ret.note = AbsentNote


\* ------------------------------------------------------------------ claims: failure notes

\* The kind of failure a note names, by its leading text.
NoteKind(note) ==
    IF note[1] \in {"Failed to download iShares CSV: ", "Failed to fetch Amundi data: ",
                    "Auto-discovery failed: "}
    THEN "transport error"
    ELSE IF note[1] \in {"No holdings found after checking ", "No holdings found in "}
    THEN "exhausted"
    ELSE IF note[1] \in {"No N-PORT filings found for this CIK.",
                         "No NPORT-P filings found via auto-discovery.",
                         "No downloaded filings found."}
                        \cup {DisabledNote[1], AbsentNote[1]}
    THEN "not found"
    ELSE "other"

\* The request for the list of filings failed.
ListingFailed ==
    /\ last.net # <<>>
    /\ last.net[1].call = "submissions"
    /\ ~last.net[1].slept

\* Filings were examined, and for each the manifest request or the document
\* request failed.
EveryCandidateFailed ==
    /\ \E n \in 1..Len(last.net) : last.net[n].call = "manifest"
    /\ \A n \in 1..Len(last.net) :
          last.net[n].call = "manifest"
          => \/ ~last.net[n].slept
             \/ /\ n < Len(last.net)
                /\ last.net[n + 1].call = "document"
                /\ ~last.net[n + 1].slept

\* C21: the note of a failed lookup names the kind of its failure: a lookup
\* whose request for the list of filings failed, or whose every candidate
\* filing failed in transport, carries a transport-error note, not the note
\* of a ticker without filings or of an exhausted scan.
C21_NoteTellsFailureKind ==
    (/\ last.op = "get_etf_holdings"
     /\ ~last.raised
     /\ last.ret.rows = <<>>
     /\ last.path = <<"_extract_via_known_mapping">>
     /\ ListingFailed \/ EveryCandidateFailed)
    => NoteKind(last.ret.note) = "transport error"


\* ------------------------------------------------------------------ the parsers in use

\* Position nodes: one with every field; one with an ISIN alone; one with a
\* balance alone; one with a description alone, under the ncom prefix; one
\* whose first issuer and cusip elements hold only blanks while later
\* candidates hold text; one whose issuer is under the second tag
\* unqualified and under the third tag qualified.
NodeIsinOnly == (<<"isin", "">> :> <<"US0378331005">>)

NodeBalanceOnly == (<<"balance", "edgar:">> :> <<"100">>)

NodeBlankFirst ==
    (<<"issuer", "">> :> <<"  ">>) @@ (<<"issuerName", "">> :> <<" APPLE INC ">>)
    @@ (<<"title", "">> :> <<"COMMON STOCK">>)
    @@ (<<"cusip", "edgar:">> :> <<"  ">>) @@ (<<"cusipNum", "">> :> <<"037833100">>)

ParseNodes ==
    {Position1, NodeIsinOnly, NodeBalanceOnly, NodeBlankFirst,
     (<<"description", "ncom:">> :> <<"COMMON STOCK">>),
     (<<"issuerName", "">> :> <<"MICROSOFT CORP">>) @@ (<<"name", "edgar:">> :> <<"MSFT">>)
     @@ (<<"issuerName", "ncom:">> :> <<"MICROSOFT CORPORATION">>)}

\* Documents: the nodes the first path finds and the nodes the fifth path
\* finds (elements of another name elsewhere in the document), or bytes that
\* are no XML.
ParseDocs ==
    {DocBad}
    \cup {[DocGood EXCEPT !.paths = [NoPaths EXCEPT ![1] = first, ![5] = fifth]] :
            first \in SeqsUpTo(ParseNodes, MaxItems),
            fifth \in {<<>>, <<Position1>>, <<NodeBalanceOnly>>}}

\* Feeds: below the header, lines of IsharesLines and holdings whose name is
\* only a currency sign, only a dash between blanks, or whose symbol is
\* missing.
ParseFeeds ==
    {<<HeaderLine>> \o l :
        l \in SeqsUpTo(IsharesLines
                       \cup {[kind |-> "rec", Ticker |-> "XYZ", Name |-> "$"],
                             [kind |-> "rec", Ticker |-> "XYZ", Name |-> " - "],
                             [kind |-> "rec", Ticker |-> "", Name |-> "APPLE INC"]},
                       MaxItems)}

\* The decoded bodies of the Amundi responses, and compositions of one
\* entry of every weight of a list: none, small, whole and fractional
\* percentages.
ParseBodies ==
    {r.data : r \in {x \in AmundiResponses : x.kind = "json"}}
    \cup {[shape |-> "dict",
           products |-> <<[shape |-> "dict",
                           compositionData |->
                               <<[shape |-> "dict", name |-> "SAP SE", bbg |-> "SAP GY",
                                  isin |-> "DE0007164600", quantity |-> "100.0",
                                  weight |-> weight, date |-> "2024-06-28"]>>]>>] :
            weight \in {<<>>} \cup
                {<<w>> : w \in {0, 1, 20, 123456, 100000, 1000000, 1050000, 10000000,
                                32500000, 100000000, 120000000, 1234567890}}}

\* A call of one of the parsers with its input: a lookup of an iShares
\* ticker while the feed delivers the lines, the N-PORT parser on a
\* document, the Amundi path while the API delivers the body.
InitParse ==
    /\ files = Empty
    /\ info = Empty
    /\ puts = Empty
    /\ ttl = DefaultTtlDays
    /\ now = 0
    /\ enable_cache = FALSE
    /\ enable_auto_discovery = TRUE
    /\ known = KNOWN_ETF_CIKS
    /\ last \in {[op |-> "call", method |-> "_parse_ishares_csv", ticker |-> t,
                  content |-> c] : t \in {"IVV", "ivv"}, c \in ParseFeeds}
                \cup {[op |-> "call", method |-> "_parse_nport_xml", ticker |-> "RSP",
                       content |-> c] : c \in ParseDocs}
                \cup {[op |-> "call", method |-> "_extract_via_amundi_api",
                       ticker |-> "CG1", content |-> c] : c \in ParseBodies}
                \cup {[op |-> "call", method |-> "_list_recent_filings_for_cik",
                       ticker |-> "RSP", content |-> c] :
                        c \in SecResponses
                              \cup {[kind |-> "json", shape |-> "dict", recent |-> fs] :
                                      fs \in SeqsUpTo(CatalogEntries, MaxItems + 1)}}
                \cup {[op |-> "call", method |-> "_find_nport_doc", ticker |-> "RSP",
                       content |-> [files |-> c]] :
                        c \in SeqsUpTo(XmlNames \cup {"index.html", "nport_index.htm"},
                                       MaxItems + 1)}

\* get_etf_holdings(ticker) of an iShares ticker while the CSV url answers
\* the lines last.content.
ParseIsharesCsv ==
    /\ last.op = "call"
    /\ last.method = "_parse_ishares_csv"
    /\ last' = [op |-> "_parse_ishares_csv", ticker |-> last.ticker,
                content |-> last.content]
               @@ get_etf_holdings(Disk, last.ticker, 50,
                      [WorldDown EXCEPT !.ishares = [kind |-> "text",
                                                     text |-> last.content]]).out
    /\ UNCHANGED <<files, info, puts, ttl, now, enable_cache, enable_auto_discovery, known>>

\* _parse_nport_xml(content, ticker) on the document last.content.
ParseNportXml ==
    /\ last.op = "call"
    /\ last.method = "_parse_nport_xml"
    /\ last' = [op |-> "_parse_nport_xml", ticker |-> last.ticker,
                content |-> last.content, raised |-> FALSE,
                ret |-> _parse_nport_xml(last.content, last.ticker)]
    /\ UNCHANGED <<files, info, puts, ttl, now, enable_cache, enable_auto_discovery, known>>

\* _extract_via_amundi_api(ticker) while the API answers the body
\* last.content.
ParseAmundi ==
    /\ last.op = "call"
    /\ last.method = "_extract_via_amundi_api"
    /\ last' = [op |-> "_extract_via_amundi_api", ticker |-> last.ticker,
                content |-> last.content]
               @@ _extract_via_amundi_api(last.ticker,
                                          [kind |-> "json", data |-> last.content])
    /\ UNCHANGED <<files, info, puts, ttl, now, enable_cache, enable_auto_discovery, known>>

\* _find_nport_doc(files) on the manifest names last.content.files.
ParseFindNportDoc ==
    /\ last.op = "call"
    /\ last.method = "_find_nport_doc"
    /\ last' = [op |-> "_find_nport_doc", ticker |-> last.ticker,
                content |-> last.content, raised |-> FALSE,
                ret |-> _find_nport_doc(last.content.files)]
    /\ UNCHANGED <<files, info, puts, ttl, now, enable_cache, enable_auto_discovery, known>>

\* _list_recent_filings_for_cik(cik) while the submissions url answers
\* last.content.
ParseListFilings ==
    /\ last.op = "call"
    /\ last.method = "_list_recent_filings_for_cik"
    /\ LET listed == _list_recent_filings_for_cik(last.content)
       IN last' = [op |-> "_list_recent_filings_for_cik", ticker |-> last.ticker,
                   content |-> last.content, raised |-> "exc" \in DOMAIN listed,
                   ret |-> IF "exc" \in DOMAIN listed THEN <<>> ELSE listed.ret]
    /\ UNCHANGED <<files, info, puts, ttl, now, enable_cache, enable_auto_discovery, known>>

NextParse ==
    \/ ParseListFilings
    \/ ParseIsharesCsv
    \/ ParseNportXml
    \/ ParseAmundi
    \/ ParseFindNportDoc

SpecParse == InitParse /\ [][NextParse]_vars


\* ------------------------------------------------------------------ claims: holding records

\* The fields test_working_etfs expects of every holding.
HoldingFields ==
    {"ticker_fund", "issuer", "title", "id_cusip", "id_isin", "security_ticker",
     "balance", "value_usd", "weight_pct", "currency", "sector", "country",
     "country_of_risk", "security_type", "bbg", "as_of_date"}

\* C22: every holding a lookup returns, whatever the path, has exactly the
\* sixteen fields of HoldingFields.
C22_UniformHoldingFields ==
    (last.op = "get_etf_holdings" /\ ~last.raised)
    => \A i \in 1..Len(last.ret.rows) : DOMAIN last.ret.rows[i] = HoldingFields


\* ------------------------------------------------------------------ claims: the tables

\* C24: the known CIK table every extractor sees is the table of process
\* start, whatever lookups and CIK trials have run (the iShares and Amundi
\* tables are constants of the model: no operation assigns to them).
C24_TablesNeverMutated == known = KNOWN_ETF_CIKS


\* ------------------------------------------------------------------ claims: the parsers

\* C26: every row the lookup of a ticker mapped to an iShares feed returns
\* has the upper-case ticker as ticker_fund and a non-empty issuer.
C26_IsharesRowsTickerAndIssuer ==
    (last.op = "_parse_ishares_csv" /\ ~last.raised)
    => \A i \in 1..Len(last.ret.rows) :
          /\ last.ret.rows[i].ticker_fund = "IVV"
          /\ last.ret.rows[i].issuer # ""

\* A lookup of the lower-case ticker returned rows from a feed that also
\* held a line whose name cleans to nothing.
C26_Witness ==
    /\ last.op = "_parse_ishares_csv"
    /\ ~last.raised
    /\ last.ticker = "ivv"
    /\ last.ret.rows # <<>>
    /\ \E i \in 1..Len(last.content) :
          last.content[i].kind = "rec" /\ last.content[i].Name = "$"


\* C27: each of the three parsers returns a result for every input: no call
\* of the iShares CSV parser, the N-PORT parser or the Amundi composition
\* parser ends in an exception.
C27_ParsersTotal ==
    last.op \in {"_parse_ishares_csv", "_parse_nport_xml", "_extract_via_amundi_api"}
    => ~last.raised


\* The first path of candidates that finds at least one node, 0 if none does.
FirstMatchingPath(content) ==
    IF \E p \in 1..Len(candidates) : content.paths[p] # <<>>
    THEN CHOOSE p \in 1..Len(candidates) :
            /\ content.paths[p] # <<>>
            /\ \A q \in 1..(p - 1) : content.paths[q] = <<>>
    ELSE 0

\* C28: the rows the N-PORT parser returns are the rows retained from the
\* nodes of the first path that finds a node; when none of those nodes is
\* retained no later path is tried and no row is returned.
C28_FirstMatchingPathOnly ==
    (last.op = "_parse_nport_xml" /\ last.content.xml_ok
     /\ FirstMatchingPath(last.content) # 0)
    => last.ret = NportRows(last.content.paths[FirstMatchingPath(last.content)],
                            1, last.ticker)

\* The node holds text for the issuer, the title, the CUSIP or the ISIN.
Identified(sec) ==
    \/ get_text(sec, FieldTags.issuer) # ""
    \/ get_text(sec, FieldTags.title) # ""
    \/ get_text(sec, FieldTags.cusip) # ""
    \/ get_text(sec, FieldTags.isin) # ""

\* C29: of the nodes of a document whose first path alone finds nodes, the
\* parser returns one row for each node with an issuer, a title, a CUSIP or
\* an ISIN, and none for the others.
C29_RetainedIffIdentified ==
    (/\ last.op = "_parse_nport_xml"
     /\ last.content.xml_ok
     /\ \A p \in 2..Len(candidates) : last.content.paths[p] = <<>>)
    => Len(last.ret)
       = Cardinality({i \in 1..Len(last.content.paths[1]) :
                        Identified(last.content.paths[1][i])})

\* The text of the first candidate, tag by tag and prefix by prefix, whose
\* stripped text is not empty; "" if there is none.
RECURSIVE FirstNonBlank(_, _, _, _)
FirstNonBlank(sec, tag_names, t, p) ==
    IF t > Len(tag_names) THEN ""
    ELSE IF p > Len(NsPrefixes) THEN FirstNonBlank(sec, tag_names, t + 1, 1)
    ELSE LET xpath == <<tag_names[t], NsPrefixes[p]>>
             result == IF xpath \in DOMAIN sec THEN sec[xpath] ELSE <<>>
         IN IF result # <<>> /\ strip(result[1]) # ""
            THEN strip(result[1])
            ELSE FirstNonBlank(sec, tag_names, t, p + 1)

\* C30: in the row of a document whose only node is found by the first path,
\* each field is the stripped text of the first candidate that has any; an
\* element holding only blanks does not end the search.
C30_FirstNonBlankCandidateWins ==
    (/\ last.op = "_parse_nport_xml"
     /\ last.content.xml_ok
     /\ Len(last.content.paths[1]) = 1
     /\ \A p \in 2..Len(candidates) : last.content.paths[p] = <<>>
     /\ Len(last.ret) = 1)
    => LET sec == last.content.paths[1][1]
           row == last.ret[1]
       IN /\ row.title = FirstNonBlank(sec, FieldTags.title, 1, 1)
          /\ row.id_cusip = FirstNonBlank(sec, FieldTags.cusip, 1, 1)
          /\ row.id_isin = FirstNonBlank(sec, FieldTags.isin, 1, 1)
          /\ row.balance = FirstNonBlank(sec, FieldTags.balance, 1, 1)
          /\ row.value_usd = FirstNonBlank(sec, FieldTags.value, 1, 1)
          /\ row.weight_pct = FirstNonBlank(sec, FieldTags.pct, 1, 1)
          /\ row.issuer = IF FirstNonBlank(sec, FieldTags.issuer, 1, 1) # ""
                          THEN FirstNonBlank(sec, FieldTags.issuer, 1, 1)
                          ELSE row.title


\* ------------------------------------------------------------------ runs, step by step

\* The clock of the runs stops at MaxRunTime days, one day past the default
\* TTL.
MaxRunTime == 4

\* The tickers of the runs: one of the iShares table, one of the known CIK
\* table.
RunTickers == {"IVV", "RSP"}

\* What the service of the ticker answers during a lookup: the feed down or
\* delivering one holding; the submissions url down, answering a JSON list,
\* or listing one filing with a position.
RunWorlds(ticker) ==
    IF ticker \in DOMAIN ISHARES_ETF_MAPPINGS
    THEN {WorldDown,
          [WorldDown EXCEPT !.ishares = [kind |-> "text",
                                         text |-> <<HeaderLine, HoldingLine>>]]}
    ELSE BatchWorlds(ticker)

\* The calls of the two convenience functions.
RunCalls ==
    {[fn |-> "get_etf_holdings", tickers |-> <<t>>] : t \in RunTickers}
    \cup {[fn |-> "get_multiple_etf_holdings", tickers |-> ts] :
            ts \in SeqsUpTo(RunTickers, MaxBatch)}

\* After a lookup has returned: the next ticker of the loop, or the return
\* statement and with it the finally clause.
AfterLookup(queue) == IF queue = <<>> THEN "finally" ELSE "lookup"

\* last holds the run of a convenience function: the function, where it
\* stands (pc), the tickers not yet looked up (queue), whether the directory
\* of tempfile.mkdtemp exists, how the run ended ("" while it has not), and
\* the store_data in progress (ticker, data, the index about to be written).
InitRun ==
    /\ files = Empty
    /\ info = Empty
    /\ puts = Empty
    /\ ttl = DefaultTtlDays
    /\ now = 0
    /\ enable_cache = TRUE
    /\ enable_auto_discovery = TRUE
    /\ known = KNOWN_ETF_CIKS
    /\ last = [op |-> "idle", fn |-> "", pc |-> "done", queue |-> <<>>,
               temp_folder |-> FALSE, ended |-> "", writing |-> None]

\* A convenience function is called: ETFHoldingsExtractor() begins, the
\* cache object is made (the directory and its index exist already or are
\* made empty).
RunCall(call) ==
    /\ last.pc = "done"
    /\ last' = [op |-> "call", fn |-> call.fn, pc |-> "mkdtemp", queue |-> call.tickers,
                temp_folder |-> FALSE, ended |-> "", writing |-> None]
    /\ UNCHANGED <<files, info, puts, ttl, now, enable_cache, enable_auto_discovery, known>>

\* self.temp_folder = tempfile.mkdtemp(prefix="etf_holdings_")
RunMkdtemp ==
    /\ last.pc = "mkdtemp"
    /\ last' = [last EXCEPT !.op = "mkdtemp", !.pc = "Downloader", !.temp_folder = TRUE]
    /\ UNCHANGED <<files, info, puts, ttl, now, enable_cache, enable_auto_discovery, known>>

\* self.downloader = Downloader(...): the constructor returns, or raises;
\* the statement stands before the try of the convenience function, so an
\* exception leaves the function at once.
RunDownloader(ok) ==
    /\ last.pc = "Downloader"
    /\ last' = IF ok
               THEN [last EXCEPT !.op = "Downloader", !.pc = AfterLookup(last.queue)]
               ELSE [last EXCEPT !.op = "Downloader", !.pc = "done", !.ended = "raised"]
    /\ UNCHANGED <<files, info, puts, ttl, now, enable_cache, enable_auto_discovery, known>>

\* extractor.get_etf_holdings(ticker, ...) up to the call of store_data,
\* given what the cache answered: a hit returns; a miss fetches, and a
\* result with rows goes on to store_data; an exception of the fetch leaves
\* the try.
RunLookupWith(cached_data, world) ==
    LET t == Upper(Head(last.queue))
        fresh == _fetch_fresh_data(t, BatchDepth, world)
    IN /\ last.pc = "lookup"
       /\ last' =
            IF cached_data # None
            THEN [last EXCEPT !.op = "lookup", !.queue = Tail(@),
                              !.pc = AfterLookup(Tail(last.queue))]
            ELSE IF HasRaised(fresh)
            THEN [last EXCEPT !.op = "lookup", !.pc = "finally", !.ended = "raised"]
            ELSE IF enable_cache /\ fresh.ret.rows # <<>> /\ ttl > 0
            THEN [last EXCEPT !.op = "lookup", !.pc = "open_payload",
                              !.writing = [ticker |-> t, data |-> fresh.ret,
                                           info |-> Empty]]
            ELSE [last EXCEPT !.op = "lookup", !.queue = Tail(@),
                              !.pc = AfterLookup(Tail(last.queue))]
       /\ UNCHANGED <<files, info, puts, ttl, now, enable_cache, enable_auto_discovery, known>>

\* A mutant: the lookup does not ask the cache.
RunLookup_Refetching(world) == RunLookupWith(None, world)

RunLookup(world) ==
    RunLookupWith(IF last.pc = "lookup" /\ enable_cache
                  THEN get_cached_data(Disk, Upper(Head(last.queue)), BatchDepth)
                  ELSE None,
                  world)

\* store_data: open(cache_file, "w") has made the file, or emptied it.
RunOpenPayload ==
    /\ last.pc = "open_payload"
    /\ files' = Put(files, _get_cache_file(last.writing.ticker, BatchDepth),
                    [content |-> Incomplete, mtime |-> now])
    /\ last' = [last EXCEPT !.op = "open_payload", !.pc = "dump_payload"]
    /\ UNCHANGED <<info, puts, ttl, now, enable_cache, enable_auto_discovery, known>>

\* store_data: json.dump(cached_data, f) is through and the file closed.
RunDumpPayload ==
    /\ last.pc = "dump_payload"
    /\ files' = Put(files, _get_cache_file(last.writing.ticker, BatchDepth),
                    [content |-> WithCacheInfo(last.writing.ticker, BatchDepth,
                                               last.writing.data),
                     mtime |-> now])
    /\ last' = [last EXCEPT !.op = "dump_payload", !.pc = "open_index"]
    /\ UNCHANGED <<info, puts, ttl, now, enable_cache, enable_auto_discovery, known>>

\* store_data: the index is read, the record of the ticker set, and
\* _write_cache_info has opened cache_info.json for writing: the file is
\* empty, which _read_cache_info reads as {}.
RunOpenIndex ==
    /\ last.pc = "open_index"
    /\ info' = Empty
    /\ last' = [last EXCEPT !.op = "open_index", !.pc = "dump_index",
                  !.writing.info =
                      Put(info, last.writing.ticker,
                          [filename |-> _get_cache_filename(last.writing.ticker,
                                                            BatchDepth),
                           cached_at |-> now,
                           max_filings |-> BatchDepth,
                           holdings_count |-> Len(last.writing.data.rows)])]
    /\ UNCHANGED <<files, puts, ttl, now, enable_cache, enable_auto_discovery, known>>

\* store_data: json.dump(info, f) is through; store_data and the lookup
\* return.
RunDumpIndex ==
    /\ last.pc = "dump_index"
    /\ info' = last.writing.info
    /\ puts' = Put(puts, <<last.writing.ticker, BatchDepth>>,
                   [data |-> last.writing.data, at |-> now])
    /\ last' = [last EXCEPT !.op = "dump_index", !.queue = Tail(@),
                  !.pc = AfterLookup(Tail(last.queue)), !.writing = None]
    /\ UNCHANGED <<files, ttl, now, enable_cache, enable_auto_discovery, known>>

\* KeyboardInterrupt: while the extractor is being constructed the function
\* is left at once; inside the try (no except clause of the code catches
\* it, those of store_data catch Exception only) the finally clause is next.
RunInterrupt ==
    /\ last.pc \in {"mkdtemp", "Downloader", "lookup", "open_payload", "dump_payload",
                    "open_index", "dump_index"}
    /\ last' = [last EXCEPT !.op = "interrupt",
                  !.pc = IF last.pc \in {"mkdtemp", "Downloader"} THEN "done"
                         ELSE "finally",
                  !.ended = "interrupted"]
    /\ UNCHANGED <<files, info, puts, ttl, now, enable_cache, enable_auto_discovery, known>>

\* finally: extractor.cleanup() removes the directory if it exists.
RunFinally ==
    /\ last.pc = "finally"
    /\ last' = [last EXCEPT !.op = "cleanup", !.pc = "done", !.temp_folder = FALSE,
                  !.ended = IF @ = "" THEN "returned" ELSE @]
    /\ UNCHANGED <<files, info, puts, ttl, now, enable_cache, enable_auto_discovery, known>>

\* A day passes between two runs.
RunTick ==
    /\ last.pc = "done"
    /\ now < MaxRunTime
    /\ now' = now + 1
    /\ last' = [last EXCEPT !.op = "tick"]
    /\ UNCHANGED <<files, info, puts, ttl, enable_cache, enable_auto_discovery, known>>

NextRun ==
    \/ \E call \in RunCalls : RunCall(call)
    \/ RunMkdtemp
    \/ \E ok \in BOOLEAN : RunDownloader(ok)
    \/ \E w \in UNION {RunWorlds(t) : t \in RunTickers} :
          /\ last.pc = "lookup"
          /\ w \in RunWorlds(Upper(Head(last.queue)))
          /\ RunLookup(w)
    \/ RunOpenPayload
    \/ RunDumpPayload
    \/ RunOpenIndex
    \/ RunDumpIndex
    \/ RunInterrupt
    \/ RunFinally
    \/ RunTick

SpecRun == InitRun /\ [][NextRun]_vars


\* ------------------------------------------------------------------ claims: runs

\* C23: no run of a convenience function ends, by return, by an exception or
\* by an interruption, with the directory of mkdtemp still present.
C23_ScratchReleased == (last.pc = "done") => ~last.temp_folder

\* C25: at every moment, also in the middle of a later write and after an
\* interrupted run, get_cached_data returns for every key whose store_data
\* has completed, and whose TTL has not elapsed since, the data stored,
\* under the stamp.
C25_CommittedEntriesSurvive ==
    \A k \in DOMAIN puts :
        (ttl > 0 /\ now - puts[k].at <= ttl)
        => /\ get_cached_data(Disk, k[1], k[2]) # None
           /\ StripCacheInfo(get_cached_data(Disk, k[1], k[2])) = puts[k].data

\* A run was interrupted in the middle of writing a payload file (the file
\* is left incomplete) while another key holds an entry stored on an
\* earlier day and still within its TTL.
C25_Witness ==
    /\ last.pc = "done"
    /\ last.ended = "interrupted"
    /\ \E f \in DOMAIN files : files[f].content = Incomplete
    /\ \E k \in DOMAIN puts :
          /\ puts[k].at < now
          /\ now - puts[k].at <= ttl
          /\ files[k].content # Incomplete


\* The records the feed parser is to keep: all but those lacking both symbol
\* and name and those whose symbol is "-".
HasSymbolOrName(line) ==
    /\ ~(line.Ticker = "" /\ line.Name = "")
    /\ line.Ticker # "-"

\* C31: of a feed of holding records whose names clean to a proper issuer,
\* the parser returns one row for each record that has a symbol or a name
\* and whose symbol is not "-", in feed order.
C31_SkipsOnlyEmptyOrPlaceholder ==
    (/\ last.op = "_parse_ishares_csv"
     /\ ~last.raised
     /\ \A i \in 2..Len(last.content) :
           /\ last.content[i].kind = "rec"
           /\ safe_clean(last.content[i].Name) \notin {"", "-"})
    => LET kept == SelectSeq(Tail(last.content), HasSymbolOrName)
       IN /\ Len(last.ret.rows) = Len(kept)
          /\ \A i \in 1..Len(kept) : last.ret.rows[i].issuer = safe_clean(kept[i].Name)


\* The entry has a name; the entry supplies a date.
HasName(entry) == entry.name # ""

HasDate(entry) == entry.date # ""

\* C32: of a composition of entries, the Amundi parser returns one holding
\* for each entry with a name, in response order, and its note carries the
\* date of the first entry of the response that supplies one.
C32_NamedEntriesAndFirstDate ==
    (/\ last.op = "_extract_via_amundi_api"
     /\ ~last.raised
     /\ HasSuccessMarker(last.ret.note))
    => LET entries == last.content.products[1].compositionData
           named == SelectSeq(entries, HasName)
           dated == SelectSeq(entries, HasDate)
       IN /\ Len(last.ret.rows) = Len(named)
          /\ \A i \in 1..Len(named) : last.ret.rows[i].issuer = named[i].name
          /\ last.ret.note[5] = IF dated # <<>> THEN <<" as of ", dated[1].date>>
                                ELSE <<>>


\* The number a decimal string denotes, in millionths: the digits before the
\* point (all of them when there is none) and up to six after it.
RECURSIVE DigitsValue(_)
DigitsValue(s) ==
    IF s = <<>> THEN 0
    ELSE 10 * DigitsValue(SubSeq(s, 1, Len(s) - 1))
         + (CHOOSE d \in 0..9 : str(d) = <<s[Len(s)]>>)

HasPoint(s) == \E i \in 1..Len(s) : s[i] = "."

Millionths(s) ==
    LET point == IF HasPoint(s) THEN CHOOSE i \in 1..Len(s) : s[i] = "." ELSE Len(s) + 1
        decimals == SubSeq(s, point + 1, Len(s))
    IN DigitsValue(SubSeq(s, 1, point - 1)) * 1000000
       + DigitsValue(decimals \o [i \in 1..(6 - Len(decimals)) |-> "0"])

\* C33: the composition parser gives each holding the percentage of its
\* entry's weight fraction as a decimal string that denotes exactly
\* weight * 100, ends in neither a zero after the point nor the point, and so
\* has no point when the percentage is whole; 0.0325 gives "3.25" and an
\* entry without a weight gives the empty string.
C33_WeightAsTrimmedPercent ==
    (/\ last.op = "_extract_via_amundi_api" /\ ~last.raised /\ HasSuccessMarker(last.ret.note))
    => LET named == SelectSeq(last.content.products[1].compositionData, HasName)
       IN \A i \in 1..Len(named) :
            LET weightPct == last.ret.rows[i].weight_pct
            IN IF named[i].weight = <<>> THEN weightPct = <<>>
               ELSE /\ weightPct # <<>>
                    /\ \A c \in 1..Len(weightPct) :
                          weightPct[c] \in {str(d)[1] : d \in 0..9} \cup {"."}
                    /\ weightPct[1] # "."
                    /\ Millionths(weightPct) = named[i].weight[1]
                    /\ HasPoint(weightPct) => weightPct[Len(weightPct)] \notin {"0", "."}
                    /\ named[i].weight[1] % 1000000 = 0 => ~HasPoint(weightPct)
                    /\ named[i].weight[1] = 3250000 => weightPct = <<"3", ".", "2", "5">>

\* A parse has turned the fraction 0.0325 into "3.25", a whole percentage
\* into its integer string, and a missing weight into "".
C33_Witness325 ==
    /\ last.op = "_extract_via_amundi_api" /\ ~last.raised
    /\ \E i \in 1..Len(last.ret.rows) : last.ret.rows[i].weight_pct = <<"3", ".", "2", "5">>

C33_WitnessWhole ==
    /\ last.op = "_extract_via_amundi_api" /\ ~last.raised
    /\ \E i \in 1..Len(last.ret.rows) : last.ret.rows[i].weight_pct = <<"1", "0", "0">>

C33_WitnessMissing ==
    /\ last.op = "_extract_via_amundi_api" /\ ~last.raised
    /\ \E i \in 1..Len(last.ret.rows) : last.ret.rows[i].weight_pct = <<>>


\* The first place of a manifest holding a name of a set, 0 when none does.
FirstOf(manifest, names) ==
    IF \E i \in 1..Len(manifest) : manifest[i] \in names
    THEN CHOOSE i \in 1..Len(manifest) :
            /\ manifest[i] \in names
            /\ \A j \in 1..(i - 1) : manifest[j] \notin names
    ELSE 0

\* The document chosen by a marker: the primary document wherever it is,
\* else the first name of the marked ones, else the first XML name, else none.
ChosenBy(manifest, marked) ==
    IF FirstOf(manifest, PrimaryDocNames) # 0 THEN FirstOf(manifest, PrimaryDocNames)
    ELSE IF FirstOf(manifest, marked) # 0 THEN FirstOf(manifest, marked)
    ELSE FirstOf(manifest, XmlNames)

\* C34 as stated: the second choice is the first name containing "nport",
\* whatever its extension.
C34_FirstNameContainingMarker ==
    (last.op = "_find_nport_doc")
    => last.ret = ChosenBy(last.content.files, NportXmlNames \cup {"nport_index.htm"})

\* C34 (amended): document selection returns the primary document
\* (primary_doc.xml in any case) if the manifest has it anywhere; else the
\* first entry whose name, lower-cased, ends in ".xml" and contains "nport";
\* else the first entry whose name ends in ".xml"; else none.
C34_FirstXmlNameContainingMarker ==
    (last.op = "_find_nport_doc")
    => last.ret = ChosenBy(last.content.files, NportXmlNames)

\* A manifest whose primary document comes last, after a name with "nport"
\* that is no XML file and after XML names, has had its document selected.
C34_Witness ==
    /\ last.op = "_find_nport_doc"
    /\ Len(last.content.files) = 3
    /\ last.content.files[1] = "nport_index.htm"
    /\ last.content.files[2] \in NportXmlNames
    /\ last.content.files[3] \in PrimaryDocNames
    /\ last.ret = 3


\* The rearrangements of 1..n.
Rearrangements(n) == {p \in [1..n -> 1..n] : \A i \in 1..n : \E k \in 1..n : p[k] = i}

IsNportEntry(entry) == StartsWithNport(entry.form)

\* C35: for a catalog listing, listFilings returns the catalog's filings
\* whose form starts with "NPORT-P" or "NPORT-EX" and no others, each once and
\* with its own form, accession id (dashes removed), filing date and primary
\* document, in an order of never-increasing filing date; when the fetch of
\* the catalog fails it returns the empty list.
C35_ListsExactlyNportFilingsNewestFirst ==
    (/\ last.op = "_list_recent_filings_for_cik"
     /\ \/ last.content.kind = "RequestException"
        \/ /\ last.content.shape = "dict"
           /\ \A i \in 1..Len(last.content.recent) : last.content.recent[i].form # NullStr)
    => /\ ~last.raised
       /\ IF last.content.kind = "RequestException" THEN last.ret = <<>>
          ELSE LET wanted == SelectSeq(last.content.recent, IsNportEntry)
               IN /\ Len(last.ret) = Len(wanted)
                  /\ \E p \in Rearrangements(Len(wanted)) :
                        \A k \in 1..Len(wanted) :
                           /\ last.ret[k].form = wanted[p[k]].form
                           /\ last.ret[k].accession = StripDashes(wanted[p[k]].accessionNumber)
                           /\ last.ret[k].accession # wanted[p[k]].accessionNumber
                           /\ last.ret[k].filingDate = wanted[p[k]].filingDate
                           /\ last.ret[k].primary = wanted[p[k]].primaryDocument
                  /\ \A k \in 1..(Len(last.ret) - 1) :
                        last.ret[k].filingDate >= last.ret[k + 1].filingDate

\* A catalog of an N-PORT filing, a filing of another form and a newer N-PORT
\* filing has been listed: two filings, the newer first.
C35_Witness ==
    /\ last.op = "_list_recent_filings_for_cik"
    /\ last.content.kind = "json"
    /\ last.content.shape = "dict"
    /\ Len(last.content.recent) = 3
    /\ IsNportEntry(last.content.recent[1])
    /\ ~IsNportEntry(last.content.recent[2])
    /\ IsNportEntry(last.content.recent[3])
    /\ last.content.recent[1].filingDate < last.content.recent[3].filingDate
    /\ Len(last.ret) = 2
    /\ last.ret[1].filingDate > last.ret[2].filingDate


\* C36: a get_cached_data that finds the payload file of its key expired
\* returns None and removes the file and the index record naming it.
C36_ExpiredReadDeletes ==
    [][LET k == <<Upper(last'.ticker), last'.max_filings>>
       IN (/\ last'.op = "get_cached_data"
           /\ ttl > 0
           /\ k \in DOMAIN files
           /\ now > files[k].mtime + ttl)
          => /\ last'.ret = None
             /\ k \notin DOMAIN files'
             /\ \A t \in DOMAIN info' : info'[t].filename # k
      ]_vars

\* C38: every payload file is named by an index record, every index record
\* names a payload file that exists, and get_cache_stats counts as many
\* index records (total_cached_etfs) as *.json files other than the index
\* (total_files).
C38_IndexAgreesWithPayloads ==
    /\ \A f \in DOMAIN files : \E t \in DOMAIN info : info[t].filename = f
    /\ \A t \in DOMAIN info : info[t].filename \in DOMAIN files
    /\ Cardinality(DOMAIN info) = Cardinality(DOMAIN files)


\* ------------------------------------------------------------------ two extractors, one cache directory

\* The tickers the two extractors store: extractor p stores SharedTickers[p].
SharedTickers == <<"VTI", "VTI_X">>

\* Both extractors constructed on one cache directory, no call under way.
\* last.pc[p] is where extractor p stands in store_data, last.writing[p]
\* what it holds in memory, last.opened[p] whether cache_info.json has been
\* written by the other since p opened it, last.stored the tickers whose
\* store_data has returned since the last clear_cache.
InitShared ==
    /\ files = Empty
    /\ info = Empty
    /\ puts = Empty
    /\ ttl = DefaultTtlDays
    /\ now = 0
    /\ enable_cache = TRUE
    /\ enable_auto_discovery = TRUE
    /\ known = KNOWN_ETF_CIKS
    /\ last = [op |-> "__init__", ticker |-> "", pc |-> <<"idle", "idle">>,
               writing |-> <<None, None>>, overwritten |-> <<FALSE, FALSE>>,
               stored |-> {}]

\* store_data of extractor p, up to the payload file written and closed.
SharedDumpPayload(p, data) ==
    /\ last.pc[p] = "idle"
    /\ ttl > 0
    /\ files' = Put(files, _get_cache_file(SharedTickers[p], BatchDepth),
                    [content |-> WithCacheInfo(SharedTickers[p], BatchDepth, data),
                     mtime |-> now])
    /\ last' = [last EXCEPT !.op = "dump_payload", !.ticker = SharedTickers[p],
                  !.pc[p] = "read_index", !.writing[p] = [data |-> data]]
    /\ UNCHANGED <<info, puts, ttl, now, enable_cache, enable_auto_discovery, known>>

\* store_data of extractor p: info = self._read_cache_info() and the record
\* of the ticker set in it.
SharedReadIndex(p) ==
    /\ last.pc[p] = "read_index"
    /\ last' = [last EXCEPT !.op = "read_index", !.ticker = SharedTickers[p],
                  !.pc[p] = "open_index",
                  !.writing[p] =
                      [data |-> last.writing[p].data,
                       info |-> Put(info, SharedTickers[p],
                                    [filename |-> _get_cache_filename(SharedTickers[p],
                                                                      BatchDepth),
                                     cached_at |-> now,
                                     max_filings |-> BatchDepth,
                                     holdings_count |-> Len(last.writing[p].data.rows)])]]
    /\ UNCHANGED <<files, info, puts, ttl, now, enable_cache, enable_auto_discovery, known>>

\* _write_cache_info of extractor p has opened cache_info.json for writing:
\* the file is empty, which _read_cache_info reads as {}.
SharedOpenIndex(p) ==
    /\ last.pc[p] = "open_index"
    /\ info' = Empty
    /\ last' = [last EXCEPT !.op = "open_index", !.ticker = SharedTickers[p],
                  !.pc[p] = "dump_index", !.overwritten[p] = FALSE]
    /\ UNCHANGED <<files, puts, ttl, now, enable_cache, enable_auto_discovery, known>>

\* json.dump(info, f) of extractor p is through and store_data returns.  If
\* the other extractor has written the file since p opened it, p's text
\* lies over the other's: the file holds p's index, or text that is no JSON
\* document (read as {}) when a tail of the other's text is left.
SharedDumpIndex(p, garbled) ==
    /\ last.pc[p] = "dump_index"
    /\ garbled => last.overwritten[p]
    /\ info' = IF garbled THEN Empty ELSE last.writing[p].info
    /\ puts' = Put(puts, <<SharedTickers[p], BatchDepth>>,
                   [data |-> last.writing[p].data, at |-> now])
    /\ last' = [last EXCEPT !.op = "dump_index", !.ticker = SharedTickers[p],
                  !.pc[p] = "idle", !.writing[p] = None,
                  !.overwritten = [q \in 1..2 |-> q # p /\ last.pc[q] = "dump_index"],
                  !.stored = @ \cup {SharedTickers[p]}]
    /\ UNCHANGED <<files, ttl, now, enable_cache, enable_auto_discovery, known>>

\* clear_cache(ticker) by either extractor while no store_data is under way.
SharedClearCache(ticker) ==
    /\ last.pc = <<"idle", "idle">>
    /\ SetDisk(clear_cache(Disk, ticker))
    /\ last' = [last EXCEPT !.op = "clear_cache", !.ticker = ticker, !.stored = {}]
    /\ UNCHANGED <<ttl, now, enable_cache, enable_auto_discovery, known>>

NextShared ==
    \/ \E p \in 1..2 : \E data \in SampleResults(SharedTickers[p]) : SharedDumpPayload(p, data)
    \/ \E p \in 1..2 : SharedReadIndex(p)
    \/ \E p \in 1..2 : SharedOpenIndex(p)
    \/ \E p \in 1..2 : \E garbled \in BOOLEAN : SharedDumpIndex(p, garbled)
    \/ \E p \in 1..2 : SharedClearCache(SharedTickers[p])

SpecShared == InitShared /\ [][NextShared]_vars

\* C37: clear_cache(ticker) leaves no payload file and no index record of
\* the ticker, and leaves every payload file and every index record of
\* another ticker as it was, also of a ticker whose symbol is the cleared
\* one followed by "_" and more.
C37_ClearTouchesOnlyItsTicker ==
    [][(last'.op = "clear_cache")
       => /\ \A f \in DOMAIN files' : f[1] # last'.ticker
          /\ last'.ticker \notin DOMAIN info'
          /\ \A f \in DOMAIN files :
                f[1] # last'.ticker => f \in DOMAIN files' /\ files'[f] = files[f]
          /\ \A t \in DOMAIN info :
                t # last'.ticker => t \in DOMAIN info' /\ info'[t] = info[t]
      ]_vars

\* C39: once the store_data of both extractors have returned, each ticker
\* has its record in the index and its payload is returned by
\* get_cached_data.
C39_NoLostIndexUpdate ==
    (/\ last.pc = <<"idle", "idle">>
     /\ last.stored = {SharedTickers[1], SharedTickers[2]})
    => \A t \in last.stored :
          /\ t \in DOMAIN info
          /\ info[t].filename = _get_cache_filename(t, BatchDepth)
          /\ get_cached_data(Disk, t, BatchDepth) # None
          /\ StripCacheInfo(get_cached_data(Disk, t, BatchDepth)) = puts[<<t, BatchDepth>>].data

====
